---- MODULE Spec2Model ----
(***************************************************************************)
(* A model of the transfer engine of cpan115: the upload negotiation       *)
(* (Uploader.init / init_with_auto_sign / upload_file), the folder upload  *)
(* (Uploader.upload_folder with _get_or_create_folder), the paginators     *)
(* (Downloader._get_all_items, Uploader._get_all_files), the single-file   *)
(* download (Downloader.download / _download_file) and the folder download *)
(* (Downloader._collect_all_files, _download_folder_loop,                  *)
(* _download_folder_concurrent).                                           *)
(*                                                                         *)
(* The remote service, the object store and the local disk are the         *)
(* environment: their answers are drawn from small sets by the actions.    *)
(***************************************************************************)
EXTENDS Integers, Sequences, FiniteSets, TLC

VARIABLES
    \* ---- upload negotiation, one entry per local file handed to upload_file
    u_files,      \* the files upload_file is called for
    u_local,      \* f -> state of the local file: "ok", "empty" (0 bytes), "missing"
    u_pc,         \* f -> position of upload_file(f)
    u_resp,       \* f -> resp_init, the init response upload_file holds
    u_token,      \* f -> token_data: "none" (not fetched), "ok", "empty"
    u_log,        \* f -> the requests issued for f, in order
    u_ret,        \* f -> "none", "True", "False"
    u_counter     \* Uploader._counter

uVars == <<u_files, u_local, u_pc, u_resp, u_token, u_log, u_ret, u_counter>>

VARIABLES
    \* ---- one run of a paginator over one remote folder
    pg_which,     \* "_get_all_items" (Downloader) or "_get_all_files" (Uploader)
    pg_N,         \* the number of entries the remote folder holds
    pg_count,     \* the count field of the listing responses
    pg_pc,        \* "idle", "loop", "done", "raised"
    pg_offset,    \* offset
    pg_all,       \* all_items
    pg_calls      \* the number of listing requests issued

pgVars == <<pg_which, pg_N, pg_count, pg_pc, pg_offset, pg_all, pg_calls>>

VARIABLES
    \* ---- the remote folder that is downloaded, and the service's behaviour
    r_tree,        \* the entries below the remote folder, in listing order
    r_listFails,   \* the folder ids whose listing fails
    r_beh,         \* file id -> "ok", "deadurl", "httperr", "fail"
    r_failAt,      \* file id -> the number of chunks delivered before the stream breaks
    r_net,         \* the requests the service received: how many of each kind
    \* ---- the local disk
    fs_files,      \* the regular files, as normalised absolute paths
    fs_dirs,       \* the directories
    fs_init,       \* the regular files when the first batch began
    \* ---- one download call: download() or download_folder()
    df_args,       \* the arguments: mode, max_workers, overwrite, create_folder;
                   \* cpu_count: the answer of os.cpu_count(), 0 for None
    df_pc,         \* "idle", "single", "begin", "run", "done"
    df_all,        \* all_files of the folder download (the one file of download())
    df_job,        \* per file of df_all: position, chunks written, result
    df_idx,        \* the loop index of _download_folder_loop
    df_results,    \* results
    df_downloaded, \* downloaded_count
    df_summary,    \* the dict download_folder returns
    df_wrote,      \* the files of df_all whose destination was opened in this batch
    df_batch,      \* 1 for the first batch, 2 for the second
    df_prev,       \* the summary of the first batch, and whether its disk was kept
    df_progress    \* overall_progress of the concurrent folder download

rVars == <<r_tree, r_listFails, r_beh, r_failAt, r_net>>

fsVars == <<fs_files, fs_dirs, fs_init>>

dfVars ==
    <<df_args, df_pc, df_all, df_job, df_idx, df_results, df_downloaded,
      df_summary, df_wrote, df_batch, df_prev, df_progress>>

dVars == <<rVars, fsVars, dfVars>>

VARIABLES
    \* ---- one upload_folder call
    uf_args,      \* is_dir (folder_path is a directory), create_folder, cpu_count
                  \* (the answer of os.cpu_count(), 0 for None),
                  \* and run: 1 for the first call, 2 for the second
    uf_tree,      \* folder.rglob("*"): the entries below the local folder
    uf_remote,    \* the entries the service holds: fid, pid, fc, fn
    uf_pc,        \* "idle", "call", "prepass", "fanout", "done", "raised"
    uf_target,    \* target_id
    uf_cache,     \* cloud_folder_cache: relative directory -> folder id
    uf_i,         \* the position of the pre-pass in folders
    uf_calls,     \* the _get_or_create_folder calls: the local directory, the caller
    uf_fpc,       \* file -> "queued", "running", "finished", "harvested"
    uf_ftarget,   \* file -> the target upload_file was called with
    uf_fres,      \* file -> what upload_single_file returned
    uf_results,   \* results
    uf_summary,   \* the dict upload_folder returns
    uf_progress   \* overall_progress

ufVars ==
    <<uf_args, uf_tree, uf_remote, uf_pc, uf_target, uf_cache, uf_i, uf_calls,
      uf_fpc, uf_ftarget, uf_fres, uf_results, uf_summary, uf_progress>>

VARIABLES
    \* ---- one download_auto / download_by_path call
    a_args,       \* target ("path", "nopath", "rootpath", "id", "id0"), mode, overwrite
    a_meta,       \* the answer of File.get_info
    a_pc          \* "idle", "call", "file", "folder", "failed" (failure dict), "raised"

aVars == <<a_args, a_meta, a_pc>>

VARIABLES
    \* ---- one _get_or_create_folder call
    e_args,       \* parent_id, folder_name
    e_remote,     \* the entries the service holds
    e_out,        \* how the call ended
    e_pc          \* "idle", "call", "returned", "raised"

eVars == <<e_args, e_remote, e_out, e_pc>>

VARIABLES
    \* ---- one Uploader.init call
    i_args,       \* file_size, fileid, sign_key, sign_val; a value is Absent
                  \* (None) or a one-tuple
    i_found,      \* the file at Path(file_name): "nofile", "empty", "f1"
    i_pc,         \* "idle", "call", "raised" (by which check), "failed" (the
                  \* request raised), "returned"
    i_requests,   \* the requests init has issued
    i_counter     \* self._counter

iVars == <<i_args, i_found, i_pc, i_requests, i_counter>>

vars == <<uVars, pgVars, dVars, ufVars, aVars, eVars, iVars>>

\* what the actions of one part of the model leave alone
notU == <<pgVars, dVars, ufVars, aVars, eVars, iVars>>

notPg == <<uVars, dVars, ufVars, aVars, eVars, iVars>>

notD == <<uVars, pgVars, ufVars, eVars, iVars>>

notDl == <<notD, aVars>>

notUf == <<uVars, pgVars, dVars, aVars, eVars, iVars>>

notE == <<uVars, pgVars, dVars, ufVars, aVars, iVars>>

notI == <<uVars, pgVars, dVars, ufVars, aVars, eVars>>

(***************************************************************************)
(* The paginators: Downloader._get_all_items and Uploader._get_all_files.  *)
(***************************************************************************)

\* limit, the page size of both paginators
PageLimit == 1150

\* the folders listed hold up to MaxPages full pages and one entry more
MaxPages == 2

Min(a, b) == IF a < b THEN a ELSE b

Max(a, b) == IF a > b THEN a ELSE b

\* the sizes of the listed folders: around each multiple of the page size
FolderSizes ==
    { n \in { k * PageLimit + d : k \in 0..MaxPages, d \in {-1, 0, 1} } : n >= 0 }

\* File.files(cid, limit, offset) on a folder of n entries, numbered 1..n:
\* the entries offset+1 .. offset+limit that exist
Listing(n, offset, limit) ==
    [i \in 1..Max(0, Min(limit, n - offset)) |-> offset + i]

_get_all_items_stops_late(acc, count, pagelen, limit) ==
    acc > count \/ pagelen < limit

\* Downloader._get_all_items: "if len(all_items) >= count or len(page) < limit: break"
_get_all_items_stops(acc, count, pagelen, limit) ==
    acc >= count \/ pagelen < limit

_get_all_files_stops_on_short_page(acc, count, pagelen, limit) ==
    pagelen < limit

\* Uploader._get_all_files: "if len(all_items) >= count or len(items) < limit: break"
_get_all_files_stops(acc, count, pagelen, limit) ==
    acc >= count \/ pagelen < limit

\* Downloader._get_all_items: "offset += len(page)"
_get_all_items_next(offset, pagelen, limit) == offset + pagelen

\* Uploader._get_all_files: "offset += limit"
_get_all_files_next(offset, pagelen, limit) == offset + limit

PgStops(acc, count, pagelen) ==
    IF pg_which = "_get_all_items"
    THEN _get_all_items_stops(acc, count, pagelen, PageLimit)
    ELSE _get_all_files_stops(acc, count, pagelen, PageLimit)

PgNextOffset(pagelen) ==
    IF pg_which = "_get_all_items"
    THEN _get_all_items_next(pg_offset, pagelen, PageLimit)
    ELSE _get_all_files_next(pg_offset, pagelen, PageLimit)

\* one turn of the while loop: the listing request answered with a page
PgFetch ==
    /\ pg_pc = "loop"
    /\ pg_calls' = pg_calls + 1
    /\ UNCHANGED <<notPg, pg_which, pg_N, pg_count>>
    /\ LET page == Listing(pg_N, pg_offset, PageLimit)
           acc == pg_all \o page
       IN  IF page = << >>
           THEN /\ pg_pc' = "done"
                /\ UNCHANGED <<pg_all, pg_offset>>
           ELSE /\ pg_all' = acc
                /\ IF PgStops(Len(acc), pg_count, Len(page))
                   THEN /\ pg_pc' = "done"
                        /\ UNCHANGED pg_offset
                   ELSE /\ pg_pc' = "loop"
                        /\ pg_offset' = PgNextOffset(Len(page))

\* one turn of the while loop: the response's state is not true
PgFetchFails ==
    /\ pg_pc = "loop"
    /\ pg_calls' = pg_calls + 1
    /\ pg_pc' = "raised"
    /\ UNCHANGED <<notPg, pg_which, pg_N, pg_count, pg_all, pg_offset>>

PgIdle ==
    /\ pg_which = "none"
    /\ pg_N = 0
    /\ pg_count = 0
    /\ pg_pc = "idle"
    /\ pg_offset = 0
    /\ pg_all = << >>
    /\ pg_calls = 0

(***************************************************************************)
(* Upload negotiation: the init response.                                  *)
(***************************************************************************)

\* item.get("status") of a response without a status
NoStatus == 0

\* the statuses of Uploader.py:218
ChallengeStatuses == {6, 7, 8}

\* the codes of Uploader.py:218
ChallengeCodes == {700, 701, 702}

\* The data item of an init response.  sign_check and sign_key hold what
\* str(item.get(...)) yields: "None" for an absent field, "" for an empty one.
Items ==
    [status : {NoStatus, 1, 2, 6, 7, 8},
     code : {0, 701},
     sign_check : {"None", "", "0-9"},
     sign_key : {"None", "", "KEY"},
     payload : BOOLEAN]

EmptyItem ==
    [status |-> NoStatus, code |-> 0, sign_check |-> "None",
     sign_key |-> "None", payload |-> FALSE]

\* The answers to the first init request
Resps ==
    [code : {0, 702}, shape : {"dict"}, item : Items]
      \cup [code : {0, 702}, shape : {"other"}, item : {EmptyItem}]

\* The answers to the signed init request
Resps2 ==
    { r \in Resps : /\ r.code = 0
                    /\ r.item.code = 0
                    /\ r.item.sign_check \in {"None", "0-9"}
                    /\ r.item.sign_key = r.item.sign_check }

NoResp == [code |-> 0, shape |-> "unset", item |-> EmptyItem]

\* Uploader._extract_data
_extract_data(d) == IF d.shape = "dict" THEN d.item ELSE EmptyItem

\* code = item.get("code") or resp.get("code")
CodeOf(resp) ==
    IF _extract_data(resp).code # 0 THEN _extract_data(resp).code ELSE resp.code

\* the truth value of a Python string
Truthy(s) == s # ""

\* Uploader.init: the counter is advanced for an instant upload
CountsAsInstant(resp) ==
    LET data == _extract_data(resp)
        sign_key == IF data.sign_key = "None" THEN "" ELSE data.sign_key
    IN  (data.status = 2 /\ sign_key = "") \/ data.status = 1

\* init_with_auto_sign: "if status == 2: return resp"
AutoSignInstant(status) == status = 2

\* init_with_auto_sign: the condition of the signed resubmission
NeedsSign(resp) ==
    LET item == _extract_data(resp)
    IN  /\ ~AutoSignInstant(item.status)
        /\ (item.status \in ChallengeStatuses \/ CodeOf(resp) \in ChallengeCodes)
        /\ Truthy(item.sign_check)
        /\ Truthy(item.sign_key)

UploadInstant_StatusOne(status) == status = 1

\* upload_file: "if status == 2: return True"
UploadInstant(status) == status = 2

\* Uploader.init raises before any request: no size, size <= 0, no fileid
InitRejects(local) == local # "ok"

\* calc_sign_val reads the byte range sign_check names
SignCheckIsRange(sign_check) == sign_check = "0-9"

\* a request field that is None (left out by model_dump(exclude_none=True))
Absent == << >>

\* size and digests of a local file
SizeOf(file) == <<"size", file>>

Sha1Of(file) == <<"sha1", file>>

PreidOf(file) == <<"sha1", file, "0-131071">>

\* the digest of the byte range sign_check names, in upper case
calc_sign_val(file, sign_check) == <<"SHA1", file, sign_check>>

\* Path(file_name).name
CloudName(file_name) == <<file_name[Len(file_name)]>>

\* the local path upload_file is called with, and the file found there
LocalPath(f) == <<"up", f>>

\* upload_file(file_name): every other argument has its default
UploadArgs(f) ==
    [file_name |-> LocalPath(f), file_size |-> Absent, target |-> <<"0">>,
     fileid |-> Absent, preid |-> Absent, sign_key |-> Absent, sign_val |-> Absent]

NoRequest == [UploadArgs("") EXCEPT !.file_name = Absent, !.target = Absent]

Fill_Recompute(is_local_file, given, computed) ==
    IF is_local_file THEN computed ELSE given

\* Uploader.init: "computed if given is None else given", for a local file
Fill(is_local_file, given, computed) ==
    IF is_local_file /\ given = Absent THEN computed ELSE given

\* Uploader.init: the request data built from the arguments, where found is
\* the file at Path(file_name) ("nofile" when there is none)
InitFileInfo(args, found) ==
    [file_name |-> CloudName(args.file_name),
     file_size |-> Fill(found # "nofile", args.file_size, SizeOf(found)),
     target |-> args.target,
     fileid |-> Fill(found # "nofile", args.fileid, Sha1Of(found)),
     preid |-> Fill(found # "nofile", args.preid, PreidOf(found)),
     sign_key |-> args.sign_key,
     sign_val |-> args.sign_val]

\* init_with_auto_sign: fileinfo with the signing fields, for init(**fileinfo)
SignedArgs(fileinfo, file_name, item) ==
    [fileinfo EXCEPT !.sign_key = <<item.sign_key>>,
                     !.sign_val = calc_sign_val(file_name, item.sign_check)]

LogEntry(op, signed, status) ==
    [op |-> op, signed |-> signed, status |-> status, req |-> NoRequest,
     item |-> EmptyItem]

\* as if the answer to the signed init were evaluated for a challenge again
AfterInit_Rechallenge(f, resp) ==
    /\ u_resp' = [u_resp EXCEPT ![f] = resp]
    /\ IF NeedsSign(resp)
       THEN /\ u_pc' = [u_pc EXCEPT ![f] = "sign"]
            /\ UNCHANGED u_ret
       ELSE IF UploadInstant(_extract_data(resp).status)
       THEN /\ u_pc' = [u_pc EXCEPT ![f] = "ret"]
            /\ u_ret' = [u_ret EXCEPT ![f] = "True"]
       ELSE /\ u_pc' = [u_pc EXCEPT ![f] = "token"]
            /\ UNCHANGED u_ret

\* upload_file after init_with_auto_sign returned resp
AfterInit(f, resp) ==
    /\ u_resp' = [u_resp EXCEPT ![f] = resp]
    /\ IF UploadInstant(_extract_data(resp).status)
       THEN /\ u_pc' = [u_pc EXCEPT ![f] = "ret"]
            /\ u_ret' = [u_ret EXCEPT ![f] = "True"]
       ELSE /\ u_pc' = [u_pc EXCEPT ![f] = "token"]
            /\ UNCHANGED u_ret

\* Uploader.init for the request of f: one answer of the service
InitAnswered(f, signed, req, resp) ==
    /\ u_log' = [u_log EXCEPT
                   ![f] = Append(@, [LogEntry("init", signed, _extract_data(resp).status)
                                       EXCEPT !.req = req, !.item = _extract_data(resp)])]
    /\ u_counter' = IF CountsAsInstant(resp) THEN u_counter + 1 ELSE u_counter

\* Uploader.init when request_json raises
InitFailed(f, signed, req) ==
    /\ u_log' = [u_log EXCEPT
                   ![f] = Append(@, [LogEntry("init", signed, -1) EXCEPT !.req = req])]
    /\ u_pc' = [u_pc EXCEPT ![f] = "raised"]
    /\ UNCHANGED <<u_resp, u_ret, u_counter>>

\* upload_file up to the answer to the first init
UInit1(f) ==
    /\ u_pc[f] = "start"
    /\ UNCHANGED <<notU, u_files, u_local, u_token>>
    /\ IF InitRejects(u_local[f])
       THEN /\ u_pc' = [u_pc EXCEPT ![f] = "raised"]
            /\ UNCHANGED <<u_resp, u_log, u_ret, u_counter>>
       ELSE \/ InitFailed(f, FALSE, InitFileInfo(UploadArgs(f), f))
            \/ \E resp \in Resps :
                 /\ InitAnswered(f, FALSE, InitFileInfo(UploadArgs(f), f), resp)
                 /\ IF NeedsSign(resp)
                    THEN /\ u_pc' = [u_pc EXCEPT ![f] = "sign"]
                         /\ u_resp' = [u_resp EXCEPT ![f] = resp]
                         /\ UNCHANGED u_ret
                    ELSE AfterInit(f, resp)

\* what Path(cloud_file_name) may name in the working directory when init is
\* called again: nothing, the file itself, another file of that name
FoundAtCloudName(f) == {"nofile", f, "other"}

\* init_with_auto_sign: calc_sign_val and the signed init
USign(f) ==
    /\ u_pc[f] = "sign"
    /\ UNCHANGED <<notU, u_files, u_local, u_token>>
    /\ \/ /\ ~SignCheckIsRange(_extract_data(u_resp[f]).sign_check)
          /\ u_pc' = [u_pc EXCEPT ![f] = "raised"]
          /\ UNCHANGED <<u_resp, u_log, u_ret, u_counter>>
       \/ \E found \in FoundAtCloudName(f) :
            LET fileinfo == SignedArgs(u_log[f][1].req, f, _extract_data(u_resp[f]))
            IN  \/ InitFailed(f, TRUE, InitFileInfo(fileinfo, found))
                \/ \E resp2 \in Resps2 :
                     /\ InitAnswered(f, TRUE, InitFileInfo(fileinfo, found), resp2)
                     /\ AfterInit(f, resp2)

\* upload_file: get_token
UToken(f) ==
    /\ u_pc[f] = "token"
    /\ UNCHANGED <<notU, u_files, u_local, u_resp, u_ret, u_counter>>
    /\ u_log' = [u_log EXCEPT ![f] = Append(@, LogEntry("get_token", FALSE, 0))]
    /\ \/ /\ u_pc' = [u_pc EXCEPT ![f] = "raised"]
          /\ UNCHANGED u_token
       \/ \E t \in {"ok", "empty"} :
            /\ u_token' = [u_token EXCEPT ![f] = t]
            /\ u_pc' = [u_pc EXCEPT ![f] = "oss"]

TokenUsable_Any(token) == TRUE

\* upload_to_oss reads endpoint and the three credentials of token_data
TokenUsable(token) == token = "ok"

\* upload_file: upload_to_oss and the return
UOss(f) ==
    /\ u_pc[f] = "oss"
    /\ UNCHANGED <<notU, u_files, u_local, u_resp, u_token, u_counter>>
    /\ IF ~_extract_data(u_resp[f]).payload \/ ~TokenUsable(u_token[f])
       THEN /\ u_pc' = [u_pc EXCEPT ![f] = "raised"]
            /\ UNCHANGED <<u_log, u_ret>>
       ELSE \/ \* put_object_from_file raises
               /\ u_log' = [u_log EXCEPT ![f] = Append(@, LogEntry("oss", FALSE, -1))]
               /\ u_pc' = [u_pc EXCEPT ![f] = "raised"]
               /\ UNCHANGED u_ret
            \/ /\ u_log' = [u_log EXCEPT ![f] = Append(@, LogEntry("oss", FALSE, 0))]
               /\ u_pc' = [u_pc EXCEPT ![f] = "ret"]
               /\ u_ret' = [u_ret EXCEPT ![f] = "True"]

UIdle ==
    /\ u_files = {}
    /\ u_local = << >>
    /\ u_pc = << >>
    /\ u_resp = << >>
    /\ u_token = << >>
    /\ u_log = << >>
    /\ u_ret = << >>
    /\ u_counter = 0

\* upload_file is called for the files of fs
UStart(fs) ==
    /\ u_files = fs
    /\ u_local \in [fs -> {"ok", "empty", "missing"}]
    /\ u_pc = [f \in fs |-> "start"]
    /\ u_resp = [f \in fs |-> NoResp]
    /\ u_token = [f \in fs |-> "none"]
    /\ u_log = [f \in fs |-> << >>]
    /\ u_ret = [f \in fs |-> "none"]
    /\ u_counter = 0

\* the answered init requests of f
AnsweredInits(f) == SelectSeq(u_log[f], LAMBDA e : e.op = "init" /\ e.status # -1)

\* a request of this kind was issued for f
Issued(f, op) == \E i \in 1..Len(u_log[f]) : u_log[f][i].op = op

(***************************************************************************)
(* Paths (pathlib) and the local disk.                                     *)
(***************************************************************************)

\* A path or a name is what pathlib parses the string to: whether it is
\* absolute, and its components.
Path(abs, parts) == [abs |-> abs, parts |-> parts]

\* Path("") and Path(".")
EmptyPath == Path(FALSE, << >>)

\* a / b
PathJoin(a, b) == IF b.abs THEN b ELSE Path(a.abs, a.parts \o b.parts)

\* p.parent
Parent(p) ==
    IF p.parts = << >> THEN p ELSE Path(p.abs, SubSeq(p.parts, 1, Len(p.parts) - 1))

\* the working directory of the process
Cwd == <<"home">>

\* the components of p from the root of the disk
FromRoot(p) == IF p.abs THEN p.parts ELSE Cwd \o p.parts

RECURSIVE Norm(_)
\* the directory entry a component sequence leads to: ".." steps up
Norm(parts) ==
    IF parts = << >> THEN << >>
    ELSE LET front == Norm(SubSeq(parts, 1, Len(parts) - 1))
             last == parts[Len(parts)]
         IN  IF last = ".."
             THEN (IF front = << >> THEN << >> ELSE SubSeq(front, 1, Len(front) - 1))
             ELSE Append(front, last)

\* where p leads on the disk
Resolved(p) == Norm(FromRoot(p))

\* every directory on the way to p's last component exists
Walkable(dirs, p) ==
    \A i \in 0..(Len(FromRoot(p)) - 1) : Norm(SubSeq(FromRoot(p), 1, i)) \in dirs

\* p.exists()
Exists(files, dirs, p) ==
    Walkable(dirs, p) /\ Resolved(p) \in (files \cup dirs)

\* the directories p.mkdir(parents=True, exist_ok=True) leaves
MkdirP(dirs, p) ==
    dirs \cup { Norm(SubSeq(FromRoot(p), 1, i)) : i \in 0..Len(FromRoot(p)) }

\* p.mkdir(parents=True, exist_ok=True) raises: a component is a regular file
MkdirFails(files, p) ==
    \E i \in 0..Len(FromRoot(p)) : Norm(SubSeq(FromRoot(p), 1, i)) \in files

\* open(p, "wb") succeeds: the directory exists and p is no directory
CanOpen(dirs, p) == Walkable(dirs, p) /\ Resolved(p) \notin dirs

\* q lies in the directory root or below it
Under(root, q) ==
    /\ Len(Resolved(q)) >= Len(Resolved(root))
    /\ SubSeq(Resolved(q), 1, Len(Resolved(root))) = Resolved(root)

(***************************************************************************)
(* The remote tree and Downloader._collect_all_files.                      *)
(***************************************************************************)

\* no request yet
Collected_DropsFailure(results, r) == IF r.success THEN Append(results, r) ELSE results

\* results.append(result) in the loop over as_completed
Collected(results, r) == Append(results, r)

NoNet == [get_info |-> 0, files |-> 0, downurl |-> 0]

\* the service received n more requests of this kind
Requested(net, kind, n) == [net EXCEPT ![kind] = @ + n]

\* the id of the remote folder that is downloaded, and its name
RootId == 1

FolderName == Path(FALSE, <<"F">>)

\* One entry of a listing: fc "0" is a folder, "1" a file; pc 0 is no pick code
Entry(fid, pid, fc, fn, pc) ==
    [fid |-> fid, pid |-> pid, fc |-> fc, fn |-> fn, pc |-> pc]

\* Downloader._get_all_items(cid) when every page is answered
ItemsOf(cid) == SelectSeq(r_tree, LAMBDA e : e.pid = cid)

\* as if the folder names were dropped
Relative_NameOnly(current_relative_path, fn) == fn

\* relative = f"{current_relative_path}/{fn}" if current_relative_path else fn
Relative(current_relative_path, fn) ==
    IF current_relative_path # EmptyPath
    THEN Path(current_relative_path.abs, current_relative_path.parts \o fn.parts)
    ELSE fn

Descriptor(item, base_path, relative) ==
    [file_id |-> item.fid, file_name |-> item.fn, pick_code |-> item.pc,
     relative_path |-> relative, target_path |-> PathJoin(base_path, relative)]

RECURSIVE _collect_all_files(_, _, _)
RECURSIVE CollectItems(_, _, _)

\* the "for item in items" loop of _collect_all_files
CollectItems(items, base_path, current_relative_path) ==
    IF items = << >> THEN << >>
    ELSE LET item == Head(items)
             relative == Relative(current_relative_path, item.fn)
             found ==
                 IF item.fc = "0" /\ item.fid # 0
                 THEN _collect_all_files(item.fid, base_path, relative)
                 ELSE IF item.fc = "1" /\ item.pc # 0
                      THEN <<Descriptor(item, base_path, relative)>>
                      ELSE << >>
         IN  found \o CollectItems(Tail(items), base_path, current_relative_path)

\* as if one failing listing emptied the whole result
_collect_all_files_Aborts(folder_id, base_path, current_relative_path) ==
    IF r_listFails # {}
    THEN << >>
    ELSE CollectItems(ItemsOf(folder_id), base_path, current_relative_path)

\* Downloader._collect_all_files: a listing that raises yields []
_collect_all_files(folder_id, base_path, current_relative_path) ==
    IF folder_id \in r_listFails
    THEN << >>
    ELSE CollectItems(ItemsOf(folder_id), base_path, current_relative_path)

(***************************************************************************)
(* Downloader.download and Downloader._download_file, for the file at      *)
(* position i of df_all.                                                   *)
(***************************************************************************)

\* the chunks of every stream that is not cut
MaxChunks == 2

\* save_dir = Path(save_path or "."), save_path = str(target_path.parent)
SaveDir(d) == Parent(d.target_path)

\* full_path = save_dir / final_filename
FullPath(d) == PathJoin(SaveDir(d), d.file_name)

NoRes == [success |-> FALSE, pick_code |-> 0, file_name |-> EmptyPath,
          save_path |-> EmptyPath, message |-> "none", relative_path |-> EmptyPath]

Result(success, d, save_path, message) ==
    [success |-> success, pick_code |-> d.pick_code, file_name |-> d.file_name,
     save_path |-> save_path, message |-> message, relative_path |-> d.relative_path]

\* the record of "except Exception" (download, the loop, the as_completed loop)
Failure(d) == Result(FALSE, d, EmptyPath, "failed")

\* the record of "if full_path.exists() and not overwrite"
Skipped(d) == Result(FALSE, d, FullPath(d), "exists")

Succeeded(d) == Result(TRUE, d, FullPath(d), "ok")

\* the largest max_workers a call is given
MaxWorkers == 2

\* the largest pool of upload_folder
MaxUpWorkers == 2

\* max_workers=None
NoWorkers == -1

\* max_workers when the caller gives none
DefaultWorkers == 5

\* "os.cpu_count() or 1"
Cpus(cpu_count) == IF cpu_count = 0 THEN 1 ELSE cpu_count

DlWorkers_AlwaysDefault(max_workers, cpu_count) == DefaultWorkers

\* download_folder: "if max_workers is None or max_workers < 1:
\* max_workers = max(1, os.cpu_count() or 1)"
DlWorkers(max_workers, cpu_count) ==
    IF max_workers = NoWorkers \/ max_workers < 1
    THEN Max(1, Cpus(cpu_count))
    ELSE max_workers

\* upload_folder: "cpus = os.cpu_count() or 1; max_workers = max(1, cpus - 1)"
UpWorkers(cpu_count) == Max(1, Cpus(cpu_count) - 1)

Running(i) == df_job[i].pc \in {"check", "open", "write"}

\* the pool takes the next queued file when a worker is free; the loop and
\* a single download run their file at once
CanStart(i) ==
    /\ df_job[i].pc = "queued"
    /\ CASE df_args.mode = "concurrent" ->
              /\ \A j \in 1..(i - 1) : df_job[j].pc # "queued"
              /\ Cardinality({ j \in 1..Len(df_job) : Running(j) }) < DlWorkers(df_args.max_workers, df_args.cpu_count)
         [] df_args.mode = "loop" -> i = df_idx
         [] OTHER -> TRUE

JobTo(i, pc, k, res) ==
    df_job' = [df_job EXCEPT ![i] = [pc |-> pc, k |-> k, res |-> res]]

\* _worker / the loop body: target_path.parent.mkdir, then download up to
\* the answer of downurl
DlResolve(i) ==
    LET d == df_all[i]
    IN  /\ df_pc \in {"run", "single"}
        /\ CanStart(i)
        /\ UNCHANGED <<notDl, r_tree, r_listFails, r_beh, r_failAt, fs_files, fs_init,
                       df_args, df_pc, df_all, df_idx, df_results, df_downloaded,
                       df_summary, df_wrote, df_batch, df_prev, df_progress>>
        /\ IF df_args.mode # "single" /\ MkdirFails(fs_files, SaveDir(d))
           THEN /\ JobTo(i, "ret", 0, Failure(d))
                /\ UNCHANGED <<fs_dirs, r_net>>
           ELSE /\ fs_dirs' = IF df_args.mode # "single"
                              THEN MkdirP(fs_dirs, SaveDir(d))
                              ELSE fs_dirs
                /\ r_net' = Requested(r_net, "downurl", 1)
                /\ IF r_beh[d.pick_code] = "deadurl"
                   THEN JobTo(i, "ret", 0, Failure(d))
                   ELSE JobTo(i, "check", 0, NoRes)

\* download: save_dir.mkdir and the check of full_path.exists()
DlCheck(i) ==
    LET d == df_all[i]
    IN  /\ df_job[i].pc = "check"
        /\ UNCHANGED <<notDl, rVars, fs_files, fs_init, df_args, df_pc, df_all, df_idx,
                       df_results, df_downloaded, df_summary, df_wrote, df_batch, df_prev, df_progress>>
        /\ IF MkdirFails(fs_files, SaveDir(d))
           THEN /\ JobTo(i, "ret", 0, Failure(d))
                /\ UNCHANGED fs_dirs
           ELSE /\ fs_dirs' = MkdirP(fs_dirs, SaveDir(d))
                /\ IF Exists(fs_files, fs_dirs', FullPath(d)) /\ ~df_args.overwrite
                   THEN JobTo(i, "ret", 0, Skipped(d))
                   ELSE JobTo(i, "open", 0, NoRes)

DlCleanup_KeepsFile(files, dirs, p) == files

\* _download_file: "if save_path.exists(): save_path.unlink()"
DlCleanup(files, dirs, p) ==
    IF Exists(files, dirs, p) /\ Resolved(p) \in files
    THEN files \ {Resolved(p)}
    ELSE files

\* _download_file: the GET, raise_for_status and open(save_path, "wb")
DlOpen(i) ==
    LET d == df_all[i]
    IN  /\ df_job[i].pc = "open"
        /\ UNCHANGED <<notDl, rVars, fs_dirs, fs_init, df_args, df_pc, df_all, df_idx,
                       df_results, df_downloaded, df_summary, df_batch, df_prev, df_progress>>
        /\ IF r_beh[d.pick_code] = "httperr"
           THEN /\ JobTo(i, "ret", 0, Failure(d))
                /\ UNCHANGED <<fs_files, df_wrote>>
           ELSE IF CanOpen(fs_dirs, FullPath(d))
                THEN /\ fs_files' = fs_files \cup {Resolved(FullPath(d))}
                     /\ df_wrote' = df_wrote \cup {i}
                     /\ JobTo(i, "write", 0, NoRes)
                ELSE /\ fs_files' = DlCleanup(fs_files, fs_dirs, FullPath(d))
                     /\ JobTo(i, "ret", 0, Failure(d))
                     /\ UNCHANGED df_wrote

\* _download_file: one turn of "for chunk in response.iter_bytes", the
\* exception handler, or the end of the stream and download's return
DlChunk(i) ==
    LET d == df_all[i]
        k == df_job[i].k
    IN  /\ df_job[i].pc = "write"
        /\ UNCHANGED <<notDl, rVars, fs_dirs, fs_init, df_args, df_pc, df_all, df_idx,
                       df_results, df_downloaded, df_summary, df_wrote, df_batch, df_prev, df_progress>>
        /\ IF r_beh[d.pick_code] = "fail" /\ r_failAt[d.pick_code] = k
           THEN /\ fs_files' = DlCleanup(fs_files, fs_dirs, FullPath(d))
                /\ JobTo(i, "ret", k, Failure(d))
           ELSE IF k < MaxChunks
                THEN /\ JobTo(i, "write", k + 1, NoRes)
                     /\ UNCHANGED fs_files
                ELSE /\ JobTo(i, "ret", k, Succeeded(d))
                     /\ UNCHANGED fs_files

(***************************************************************************)
(* Downloader.download_folder: _download_folder_loop and                   *)
(* _download_folder_concurrent.                                            *)
(***************************************************************************)

\* save_path of the calls
SavePath == Path(FALSE, <<"dl">>)

NoSummary ==
    [kind |-> "none", success |-> FALSE, save_path |-> EmptyPath, total_files |-> 0,
     downloaded |-> 0, failed |-> 0, results |-> << >>]

\* Downloader._make_error
_make_error == [NoSummary EXCEPT !.kind = "error"]

\* base_dir = Path(save_path or "."); if create_folder: base_dir / folder_name
BaseDir ==
    IF df_args.create_folder THEN PathJoin(SavePath, FolderName) ELSE SavePath

\* failed_count = len(all_files) - downloaded_count, and the returned dict
Summary(all_files, downloaded_count, results) ==
    [kind |-> "batch",
     success |-> (Len(all_files) - downloaded_count = 0),
     save_path |-> BaseDir,
     total_files |-> Len(all_files),
     downloaded |-> downloaded_count,
     failed |-> Len(all_files) - downloaded_count,
     results |-> results]

RECURSIVE ListingCalls(_)
RECURSIVE ListingCallsBelow(_)
\* the listings _collect_all_files asks for below the items
ListingCallsBelow(items) ==
    IF items = << >> THEN 0
    ELSE (IF Head(items).fc = "0" /\ Head(items).fid # 0
          THEN ListingCalls(Head(items).fid)
          ELSE 0) + ListingCallsBelow(Tail(items))

\* the listings _collect_all_files(folder_id) asks for, one page a folder
ListingCalls(folder_id) ==
    IF folder_id \in r_listFails THEN 1 ELSE 1 + ListingCallsBelow(ItemsOf(folder_id))

\* download_folder up to the submission of the files: the mode, get_info,
\* base_dir.mkdir and _collect_all_files
DfBegin ==
    /\ df_pc = "begin"
    /\ UNCHANGED <<notDl, r_tree, r_listFails, r_beh, r_failAt, fs_files, fs_init,
                   df_args, df_results, df_downloaded, df_wrote, df_batch, df_prev, df_progress>>
    /\ IF df_args.mode \notin {"concurrent", "loop"}
       THEN \* raise ValueError, caught by "except Exception"
            /\ df_pc' = "done"
            /\ df_summary' = _make_error
            /\ UNCHANGED <<fs_dirs, df_all, df_job, df_idx, r_net>>
       ELSE
       \/ \* get_info answers with a state that is not true, or with a file
          /\ df_pc' = "done"
          /\ df_summary' = _make_error
          /\ r_net' = Requested(r_net, "get_info", 1)
          /\ UNCHANGED <<fs_dirs, df_all, df_job, df_idx>>
       \/ IF MkdirFails(fs_files, BaseDir)
          THEN /\ df_pc' = "done"
               /\ df_summary' = _make_error
               /\ r_net' = Requested(r_net, "get_info", 1)
               /\ UNCHANGED <<fs_dirs, df_all, df_job, df_idx>>
          ELSE LET all_files == _collect_all_files(RootId, BaseDir, EmptyPath)
               IN  /\ fs_dirs' = MkdirP(fs_dirs, BaseDir)
                   /\ r_net' = Requested(Requested(r_net, "get_info", 1),
                                         "files", ListingCalls(RootId))
                   /\ df_all' = all_files
                   /\ df_job' = [i \in 1..Len(all_files) |->
                                   [pc |-> "queued", k |-> 0, res |-> NoRes]]
                   /\ df_idx' = 1
                   /\ IF df_args.mode = "concurrent" /\ all_files = << >>
                      THEN /\ df_pc' = "done"
                           /\ df_summary' = [Summary(<< >>, 0, << >>) EXCEPT !.success = TRUE]
                      ELSE /\ df_pc' = "run"
                           /\ UNCHANGED df_summary

DfNext_StopOnFailure(idx, r) == IF r.success THEN idx + 1 ELSE Len(df_all) + 1

\* _download_folder_loop: the for loop goes on to the next file
DfNext(idx, r) == idx + 1

\* _download_folder_loop: results.append(result) and the count
DfLoopAppend ==
    /\ df_pc = "run"
    /\ df_args.mode = "loop"
    /\ df_idx <= Len(df_all)
    /\ df_job[df_idx].pc = "ret"
    /\ df_results' = Append(df_results, df_job[df_idx].res)
    /\ df_downloaded' = IF df_job[df_idx].res.success THEN df_downloaded + 1 ELSE df_downloaded
    /\ df_job' = [df_job EXCEPT ![df_idx].pc = "harvested"]
    /\ df_idx' = DfNext(df_idx, df_job[df_idx].res)
    /\ UNCHANGED <<notDl, rVars, fsVars, df_args, df_pc, df_all, df_summary, df_wrote,
                   df_batch, df_prev, df_progress>>

\* _download_folder_concurrent: one turn of "for future in as_completed"
DfHarvest(i) ==
    /\ df_pc = "run"
    /\ df_args.mode = "concurrent"
    /\ df_job[i].pc = "ret"
    /\ df_results' = Collected(df_results, df_job[i].res)
    /\ df_downloaded' = IF df_job[i].res.success THEN df_downloaded + 1 ELSE df_downloaded
    /\ df_progress' = df_progress + 1
    /\ df_job' = [df_job EXCEPT ![i].pc = "harvested"]
    /\ UNCHANGED <<notDl, rVars, fsVars, df_args, df_pc, df_all, df_idx, df_summary, df_wrote,
                   df_batch, df_prev>>

\* the loop over the files has ended
DfLoopEnded ==
    IF df_args.mode = "loop"
    THEN df_idx > Len(df_all)
    ELSE \A i \in 1..Len(df_job) : df_job[i].pc = "harvested"

\* the statistics and the return
DfFinish ==
    /\ df_pc = "run"
    /\ DfLoopEnded
    /\ df_summary' = Summary(df_all, df_downloaded, df_results)
    /\ df_pc' = "done"
    /\ UNCHANGED <<notDl, rVars, fsVars, df_args, df_all, df_job, df_idx, df_results,
                   df_downloaded, df_wrote, df_batch, df_prev, df_progress>>

\* the directories that exist before the first call
InitDirs == { << >>, Cwd, Cwd \o <<"dl">>, Cwd \o <<"dl", "F">> }

OtherMode(mode) == IF mode = "loop" THEN "concurrent" ELSE "loop"

\* The folder is downloaded a second time: to the disk the first batch
\* left, in the same mode; or to the disk the first batch found, in the
\* other mode.
DfAgain ==
    /\ df_pc = "done"
    /\ df_batch = 1
    /\ df_summary.kind = "batch"
    /\ df_batch' = 2
    /\ df_pc' = "begin"
    /\ df_all' = << >>
    /\ df_job' = << >>
    /\ df_idx' = 1
    /\ df_results' = << >>
    /\ df_downloaded' = 0
    /\ df_summary' = NoSummary
    /\ df_wrote' = {}
    /\ df_progress' = 0
    /\ UNCHANGED <<notDl, rVars, fs_init>>
    /\ \/ /\ df_prev' = [summary |-> df_summary, kept |-> TRUE]
          /\ UNCHANGED <<fs_files, fs_dirs, df_args>>
       \/ /\ df_prev' = [summary |-> df_summary, kept |-> FALSE]
          /\ fs_files' = fs_init
          /\ fs_dirs' = InitDirs
          /\ df_args' = [df_args EXCEPT !.mode = OtherMode(@)]

DIdle ==
    /\ r_tree = << >>
    /\ r_listFails = {}
    /\ r_beh = << >>
    /\ r_failAt = << >>
    /\ r_net = NoNet
    /\ fs_files = {}
    /\ fs_dirs = {}
    /\ fs_init = {}
    /\ df_args = [mode |-> "none", max_workers |-> 0, cpu_count |-> 1, overwrite |-> FALSE,
                  create_folder |-> FALSE]
    /\ df_pc = "idle"
    /\ df_all = << >>
    /\ df_job = << >>
    /\ df_idx = 0
    /\ df_results = << >>
    /\ df_downloaded = 0
    /\ df_summary = NoSummary
    /\ df_wrote = {}
    /\ df_batch = 0
    /\ df_prev = [summary |-> NoSummary, kept |-> FALSE]
    /\ df_progress = 0

(***************************************************************************)
(* Uploader.upload_folder and Uploader._get_or_create_folder.              *)
(***************************************************************************)

MaxDepth == 3

\* target = "0", the remote root
TargetId == 0

\* folder.name
RootName == "root"

\* an entry of folder.rglob("*"): its path relative to folder
LocalEntry(rel, is_dir) == [rel |-> rel, is_dir |-> is_dir]

\* root/{a, sub/b}
LocalPair ==
    <<LocalEntry(<<"a">>, FALSE), LocalEntry(<<"sub">>, TRUE),
      LocalEntry(<<"sub", "b">>, FALSE)>>

\* root/{sub/b, sub/c}
LocalShared ==
    <<LocalEntry(<<"sub">>, TRUE), LocalEntry(<<"sub", "b">>, FALSE),
      LocalEntry(<<"sub", "c">>, FALSE)>>

\* root/{s/d/b, t/c}, in the order of a depth-first walk
LocalDeep ==
    <<LocalEntry(<<"s">>, TRUE), LocalEntry(<<"s", "d">>, TRUE),
      LocalEntry(<<"s", "d", "b">>, FALSE), LocalEntry(<<"t">>, TRUE),
      LocalEntry(<<"t", "c">>, FALSE)>>

LocalTrees == { << >>, LocalPair, LocalShared, LocalDeep }

OfDepth(items, d) == SelectSeq(items, LAMBDA e : Len(e.rel) = d)

RECURSIVE SortedUpTo(_, _)
SortedUpTo(items, d) ==
    IF d = 0 THEN << >> ELSE SortedUpTo(items, d - 1) \o OfDepth(items, d)

\* as if the entries were taken in the order of the walk
AllItems_WalkOrder(tree) == tree

\* all_items = sorted(folder.rglob("*"), key = number of parts)
AllItems(tree) == SortedUpTo(tree, MaxDepth)

\* folders = [p for p in all_items if p.is_dir()]
LocalFolders(tree) == SelectSeq(AllItems(tree), LAMBDA e : e.is_dir)

\* files = [p for p in all_items if p.is_file()]
LocalFiles(tree) == SelectSeq(AllItems(tree), LAMBDA e : ~e.is_dir)

FileSet(tree) == { LocalFiles(tree)[i].rel : i \in 1..Len(LocalFiles(tree)) }

\* rel_path.parent, "" for the folder itself
RelParent(rel) == SubSeq(rel, 1, Len(rel) - 1)

RemoteEntry(fid, pid, fc, fn) == [fid |-> fid, pid |-> pid, fc |-> fc, fn |-> fn]

\* what the service holds below the target before the call
RemoteStarts ==
    { {},
      {RemoteEntry(10, TargetId, "0", RootName)},
      {RemoteEntry(10, TargetId, "0", RootName), RemoteEntry(11, 10, "0", "sub")},
      {RemoteEntry(10, TargetId, "1", RootName)} }

\* the id File.add answers with: one the service has not used
NewFolderId(remote) ==
    LET ids == { e.fid : e \in remote } \cup {TargetId}
    IN  1 + (CHOOSE m \in ids : \A k \in ids : k <= m)

SameNameFolders_None(remote, parent_id, folder_name) == {}

SameNameFolders_AnyType(remote, parent_id, folder_name) ==
    { e \in remote : e.fn = folder_name /\ e.pid = parent_id /\ e.fid # 0 }

\* _get_or_create_folder: the listed items the lookup accepts
SameNameFolders(remote, parent_id, folder_name) ==
    { e \in remote :
        e.fc = "0" /\ e.fn = folder_name /\ e.pid = parent_id /\ e.fid # 0 }

\* how a _get_or_create_folder call ends: the id it returns unless it
\* raised, what the service holds afterwards, and whether it requested the
\* listing and the creation
EnsureOutcome(raised, id, remote, lists, adds) ==
    [raised |-> raised, id |-> id, remote |-> remote, lists |-> lists, adds |-> adds]

\* _get_or_create_folder: the ways the call can end, with what the service
\* holds afterwards
_get_or_create_folder(remote, parent_id, folder_name) ==
    LET found == SameNameFolders(remote, parent_id, folder_name)
        new == NewFolderId(remote)
        added == remote \cup {RemoteEntry(new, parent_id, "0", folder_name)}
    IN  IF parent_id < 0 THEN {EnsureOutcome(TRUE, -1, remote, 0, 0)}
        ELSE \* _get_all_files raises
             {EnsureOutcome(TRUE, -1, remote, 1, 0)} \cup
             (IF found # {}
              THEN { EnsureOutcome(FALSE, e.fid, remote, 1, 0) : e \in found }
              ELSE { EnsureOutcome(FALSE, new, added, 1, 1),
                     \* File.add answers with a state that is not true
                     EnsureOutcome(TRUE, -1, remote, 1, 1),
                     \* File.add answers with a true state and no file_id
                     EnsureOutcome(TRUE, -1, added, 1, 1) })

CacheGet_Miss(cache, key, default) == default

\* cloud_folder_cache.get(key, default)
CacheGet(cache, key, default) == IF key \in DOMAIN cache THEN cache[key] ELSE default

\* cloud_folder_cache[key] = id
CacheSet(cache, key, id) ==
    [k \in DOMAIN cache \cup {key} |-> IF k = key THEN id ELSE cache[k]]

\* one _get_or_create_folder call: whether it went on to File.add and got a folder
EnsureCall(dir, by, created) == [dir |-> dir, by |-> by, created |-> created]

NoUpResult == [relative_path |-> << >>, cloud_folder_id |-> -1, success |-> FALSE, kind |-> "none"]

NoUpSummary == [state |-> FALSE, total |-> 0, success |-> 0, failed |-> 0, data |-> << >>]
AfterEnsureRaised_GoesOn == "fanout"

\* upload_folder has no handler around _get_or_create_folder: the
\* exception leaves upload_folder
AfterEnsureRaised == "raised"

\* upload_folder up to the cache: the checks of the arguments, and the
\* remote folder of the local folder itself
UfEnter ==
    /\ uf_pc = "call"
    /\ UNCHANGED <<notUf, uf_args, uf_tree, uf_i, uf_fpc, uf_ftarget, uf_fres,
                   uf_results, uf_summary, uf_progress>>
    /\ IF ~uf_args.is_dir
       THEN /\ uf_pc' = "raised"
            /\ UNCHANGED <<uf_remote, uf_target, uf_cache, uf_calls>>
       ELSE IF uf_args.create_folder
       THEN \E o \in _get_or_create_folder(uf_remote, TargetId, RootName) :
              /\ uf_calls' = Append(uf_calls, EnsureCall(<< >>, "upload_folder", o.remote # uf_remote))
              /\ uf_remote' = o.remote
              /\ IF o.raised
                 THEN /\ uf_pc' = AfterEnsureRaised
                      /\ UNCHANGED <<uf_target, uf_cache>>
                 ELSE /\ uf_pc' = "prepass"
                      /\ uf_target' = o.id
                      /\ uf_cache' = CacheSet(<< >>, << >>, o.id)
       ELSE /\ uf_pc' = "prepass"
            /\ uf_target' = TargetId
            /\ uf_cache' = CacheSet(<< >>, << >>, TargetId)
            /\ UNCHANGED <<uf_remote, uf_calls>>

\* one turn of "for folder_path_item in folders"
UfPrepass ==
    /\ uf_pc = "prepass"
    /\ uf_i <= Len(LocalFolders(uf_tree))
    /\ UNCHANGED <<notUf, uf_args, uf_tree, uf_target, uf_fpc, uf_ftarget, uf_fres,
                   uf_results, uf_summary, uf_progress>>
    /\ LET rel_path == LocalFolders(uf_tree)[uf_i].rel
           parent_id == CacheGet(uf_cache, RelParent(rel_path), uf_target)
       IN  IF rel_path \in DOMAIN uf_cache
           THEN /\ uf_i' = uf_i + 1
                /\ UNCHANGED <<uf_remote, uf_pc, uf_cache, uf_calls>>
           ELSE \E o \in _get_or_create_folder(uf_remote, parent_id,
                                               rel_path[Len(rel_path)]) :
                  /\ uf_calls' = Append(uf_calls, EnsureCall(rel_path, "upload_folder", o.remote # uf_remote))
                  /\ uf_remote' = o.remote
                  /\ IF o.raised
                     THEN /\ uf_pc' = AfterEnsureRaised
                          /\ UNCHANGED <<uf_cache, uf_i>>
                     ELSE /\ uf_cache' = CacheSet(uf_cache, rel_path, o.id)
                          /\ uf_i' = uf_i + 1
                          /\ UNCHANGED uf_pc

PrepassOver_FirstResolved(i, folders) == i > 1

\* "for folder_path_item in folders" has run through folders
PrepassOver(i, folders) == i > Len(folders)

\* the pre-pass is over: executor.submit(upload_single_file, file_path) for
\* every file
UfSubmit ==
    /\ uf_pc = "prepass"
    /\ PrepassOver(uf_i, LocalFolders(uf_tree))
    /\ uf_pc' = "fanout"
    /\ UNCHANGED <<notUf, uf_args, uf_tree, uf_remote, uf_target, uf_cache, uf_i,
                   uf_calls, uf_fpc, uf_ftarget, uf_fres, uf_results, uf_summary, uf_progress>>

\* the number of upload_single_file calls under way
UfRunning == Cardinality({ f \in FileSet(uf_tree) : uf_fpc[f] = "running" })

\* the position of f in files
FilePos(f) == CHOOSE i \in 1..Len(LocalFiles(uf_tree)) : LocalFiles(uf_tree)[i].rel = f

\* upload_single_file: it looks the folder up in the cache and does not call
\* _get_or_create_folder
WorkerEnsures_OnEveryFile(f) == <<EnsureCall(RelParent(f), "upload_single_file", FALSE)>>

WorkerEnsures(f) == << >>

\* a worker of the pool takes the next submitted file: upload_single_file
\* reads the folder id under the lock and calls upload_file
UfWorkerStart(f) ==
    /\ uf_pc = "fanout"
    /\ uf_fpc[f] = "queued"
    /\ \A g \in FileSet(uf_tree) : FilePos(g) < FilePos(f) => uf_fpc[g] # "queued"
    /\ UfRunning < UpWorkers(uf_args.cpu_count)
    /\ uf_fpc' = [uf_fpc EXCEPT ![f] = "running"]
    /\ uf_ftarget' = [uf_ftarget EXCEPT ![f] = CacheGet(uf_cache, RelParent(f), uf_target)]
    /\ uf_calls' = uf_calls \o WorkerEnsures(f)
    /\ UNCHANGED <<notUf, uf_args, uf_tree, uf_remote, uf_pc, uf_target, uf_cache, uf_i,
                   uf_fres, uf_results, uf_summary, uf_progress>>

\* how upload_file ends: it returns True or raises
UploadFileOutcomes == {"True", "raised"}

\* what upload_single_file returns
UpResult(f, outcome) ==
    IF outcome = "raised"
    THEN [relative_path |-> f, cloud_folder_id |-> -1, success |-> FALSE, kind |-> "error"]
    ELSE [relative_path |-> f, cloud_folder_id |-> uf_ftarget[f], success |-> TRUE,
          kind |-> "result"]

\* upload_file returns or raises, and upload_single_file returns its dict
UfWorkerEnd(f) ==
    /\ uf_pc = "fanout"
    /\ uf_fpc[f] = "running"
    /\ \E outcome \in UploadFileOutcomes :
         uf_fres' = [uf_fres EXCEPT ![f] = UpResult(f, outcome)]
    /\ uf_fpc' = [uf_fpc EXCEPT ![f] = "finished"]
    /\ UNCHANGED <<notUf, uf_args, uf_tree, uf_remote, uf_pc, uf_target, uf_cache, uf_i,
                   uf_calls, uf_ftarget, uf_results, uf_summary, uf_progress>>

\* the loop over as_completed goes on to the next future whatever the
\* result says
UfLoopGoesOn_FailFast(result) == result.success

UfLoopGoesOn(result) == TRUE

\* one turn of "for future in as_completed(future_to_file)"
UfHarvest(f) ==
    /\ uf_pc = "fanout"
    /\ uf_fpc[f] = "finished"
    /\ uf_results' = Collected(uf_results, uf_fres[f])
    /\ uf_progress' = uf_progress + 1
    /\ uf_fpc' = [uf_fpc EXCEPT ![f] = "harvested"]
    /\ uf_pc' = IF UfLoopGoesOn(uf_fres[f]) THEN "fanout" ELSE "raised"
    /\ UNCHANGED <<notUf, uf_args, uf_tree, uf_remote, uf_target, uf_cache, uf_i,
                   uf_calls, uf_ftarget, uf_fres, uf_summary>>

\* success_count, failed_count and the returned dict
UpSummary(results) ==
    LET success_count == Cardinality({ j \in 1..Len(results) : results[j].success })
    IN  [state |-> TRUE, total |-> Len(results), success |-> success_count,
         failed |-> Len(results) - success_count, data |-> results]

\* every future was seen: upload_folder returns
UfReturn ==
    /\ uf_pc = "fanout"
    /\ \A f \in FileSet(uf_tree) : uf_fpc[f] = "harvested"
    /\ uf_summary' = UpSummary(uf_results)
    /\ uf_pc' = "done"
    /\ UNCHANGED <<uf_progress, notUf, uf_args, uf_tree, uf_remote, uf_target, uf_cache, uf_i,
                   uf_calls, uf_fpc, uf_ftarget, uf_fres, uf_results>>

\* upload_folder has returned and is called again with the same arguments,
\* against what the service holds by now
UfAgain ==
    /\ uf_pc = "done"
    /\ uf_args.run = 1
    /\ uf_args' = [uf_args EXCEPT !.run = 2]
    /\ uf_pc' = "call"
    /\ uf_target' = TargetId
    /\ uf_cache' = << >>
    /\ uf_i' = 1
    /\ uf_calls' = << >>
    /\ uf_fpc' = [f \in FileSet(uf_tree) |-> "queued"]
    /\ uf_ftarget' = [f \in FileSet(uf_tree) |-> -1]
    /\ uf_fres' = [f \in FileSet(uf_tree) |-> NoUpResult]
    /\ uf_results' = << >>
    /\ uf_summary' = NoUpSummary
    /\ uf_progress' = 0
    /\ UNCHANGED <<notUf, uf_tree, uf_remote>>

UfIdle ==
    /\ uf_args = [is_dir |-> FALSE, create_folder |-> FALSE, cpu_count |-> 0, run |-> 0]
    /\ uf_tree = << >>
    /\ uf_remote = {}
    /\ uf_pc = "idle"
    /\ uf_target = TargetId
    /\ uf_cache = << >>
    /\ uf_i = 0
    /\ uf_calls = << >>
    /\ uf_fpc = << >>
    /\ uf_ftarget = << >>
    /\ uf_fres = << >>
    /\ uf_results = << >>
    /\ uf_summary = NoUpSummary
    /\ uf_progress = 0

(***************************************************************************)
(* Downloader.download_auto and Downloader.download_by_path.               *)
(***************************************************************************)

\* the data of a get_info answer: file_category "absent" is a missing
\* field, pick_code 0 a missing pick code
Metas == [state : BOOLEAN, file_category : {"0", "1", "absent"}, pick_code : {0, 2}]

NoMeta == [state |-> FALSE, file_category |-> "absent", pick_code |-> 0]

\* a path string, an empty string, "/", a numeric id, the id 0
Targets == {"path", "nopath", "rootpath", "id", "id0"}

IsPath(target) == target \in {"path", "nopath", "rootpath"}

MarksDirectory_Never(meta) == FALSE

\* as if an absent file_category meant a directory
MarksDirectory_DefaultZero(meta) == meta.file_category # "1"

\* str(data.get("file_category", ...)) == "0"
MarksDirectory(meta) == meta.file_category = "0"

HasPickCode_Always(meta) == TRUE

\* pick_code = data.get("pick_code") or data.get("pc")
HasPickCode(meta) == meta.pick_code # 0

\* how the call ends when the resolution fails: download_by_path returns a
\* failure dict, download_auto raises for a numeric id
Rejected(target) == IF IsPath(target) THEN "failed" ELSE "raised"

\* the call of download with the pick code of the metadata
AutoToFile(meta) ==
    /\ a_pc' = "file"
    /\ df_pc' = "single"
    /\ df_args' = [mode |-> "single", max_workers |-> 1, cpu_count |-> df_args.cpu_count,
                   overwrite |-> a_args.overwrite,
                   create_folder |-> FALSE]
    /\ df_all' = <<[file_id |-> 2, file_name |-> Path(FALSE, <<"a">>),
                    pick_code |-> meta.pick_code,
                    relative_path |-> Path(FALSE, <<"a">>),
                    target_path |-> PathJoin(SavePath, Path(FALSE, <<"a">>))]>>
    /\ df_job' = <<[pc |-> "queued", k |-> 0, res |-> NoRes]>>

\* the call of download_folder
AutoToFolder ==
    /\ a_pc' = "folder"
    /\ df_pc' = "begin"
    /\ df_args' = [mode |-> a_args.mode,
                   max_workers |-> IF a_args.mode = "concurrent" THEN MaxWorkers ELSE 1,
                   cpu_count |-> df_args.cpu_count,
                   overwrite |-> a_args.overwrite, create_folder |-> TRUE]
    /\ UNCHANGED <<df_all, df_job>>

\* download_auto (download_by_path for a string) up to the call of download
\* or download_folder
AutoResolve ==
    /\ a_pc = "call"
    /\ UNCHANGED <<notD, r_tree, r_listFails, r_beh, r_failAt, fsVars, df_results,
                   df_downloaded, df_summary, df_wrote, df_prev, df_progress,
                   a_args>>
    /\ df_idx' = 1
    /\ df_batch' = 1
    /\ IF a_args.target \in {"nopath", "rootpath", "id0"}
       THEN \* an empty path, "/", or get_info's ValueError for the id 0
            /\ a_pc' = Rejected(a_args.target)
            /\ UNCHANGED <<r_net, a_meta, df_pc, df_args, df_all, df_job>>
       ELSE /\ r_net' = Requested(r_net, "get_info", 1)
            /\ \/ \* request_json raises
                  /\ a_pc' = "raised"
                  /\ UNCHANGED <<a_meta, df_pc, df_args, df_all, df_job>>
               \/ \E meta \in Metas :
                    /\ a_meta' = meta
                    /\ IF ~meta.state
                       THEN /\ a_pc' = Rejected(a_args.target)
                            /\ UNCHANGED <<df_pc, df_args, df_all, df_job>>
                       ELSE IF MarksDirectory(meta)
                       THEN IF IsPath(a_args.target)
                            THEN /\ a_pc' = "failed"
                                 /\ UNCHANGED <<df_pc, df_args, df_all, df_job>>
                            ELSE AutoToFolder
                       ELSE IF ~HasPickCode(meta)
                       THEN /\ a_pc' = Rejected(a_args.target)
                            /\ UNCHANGED <<df_pc, df_args, df_all, df_job>>
                       ELSE AutoToFile(meta)

AIdle ==
    /\ a_args = [target |-> "none", mode |-> "none", overwrite |-> FALSE]
    /\ a_meta = NoMeta
    /\ a_pc = "idle"

(***************************************************************************)
(* Uploader._get_or_create_folder, called on its own.                      *)
(***************************************************************************)

NoOutcome == EnsureOutcome(FALSE, -1, {}, 0, 0)

\* _get_or_create_folder(parent_id, folder_name)
EnsureApply ==
    /\ e_pc = "call"
    /\ \E o \in _get_or_create_folder(e_remote, e_args.parent_id, e_args.folder_name) :
         /\ e_out' = o
         /\ e_pc' = IF o.raised THEN "raised" ELSE "returned"
    /\ UNCHANGED <<notE, e_args, e_remote>>

EIdle ==
    /\ e_args = [parent_id |-> 0, folder_name |-> ""]
    /\ e_remote = {}
    /\ e_out = NoOutcome
    /\ e_pc = "idle"

(***************************************************************************)
(* Uploader.init called by itself.                                         *)
(***************************************************************************)

\* p.stat().st_size of the file found
st_size(found) == IF found = "empty" THEN <<0>> ELSE <<7>>

\* "not fileid"
NoDigest(fileid) == fileid = Absent \/ fileid = <<"">>

InitCheck_SizeOnly(args, found) ==
    LET file_size == Fill(found # "nofile", args.file_size, st_size(found))
    IN  IF file_size = Absent THEN "file_size" ELSE "ok"

\* Uploader.init from the fill of the arguments to FileUploadParams: the
\* check that raises ValueError, or "ok"
InitCheck(args, found) ==
    LET is_local_file == found # "nofile"
        file_size == Fill(is_local_file, args.file_size, st_size(found))
        fileid == Fill(is_local_file, args.fileid, Sha1Of(found))
    IN  IF (args.sign_key = Absent) # (args.sign_val = Absent) THEN "sign"
        ELSE IF file_size = Absent \/ file_size[1] <= 0 THEN "file_size"
        ELSE IF NoDigest(fileid) THEN "fileid"
        ELSE "ok"

\* Uploader.init: the checks, the POST and the counter
InitApply ==
    /\ i_pc = "call"
    /\ UNCHANGED <<notI, i_args, i_found>>
    /\ IF InitCheck(i_args, i_found) # "ok"
       THEN /\ i_pc' = InitCheck(i_args, i_found)
            /\ UNCHANGED <<i_requests, i_counter>>
       ELSE /\ i_requests' = i_requests + 1
            /\ \/ /\ i_pc' = "failed"
                  /\ UNCHANGED i_counter
               \/ \E resp \in Resps :
                    /\ i_pc' = "returned"
                    /\ i_counter' = IF CountsAsInstant(resp)
                                    THEN i_counter + 1
                                    ELSE i_counter

IIdle ==
    /\ i_args = [file_size |-> Absent, fileid |-> Absent, sign_key |-> Absent,
                 sign_val |-> Absent]
    /\ i_found = "nofile"
    /\ i_pc = "idle"
    /\ i_requests = 0
    /\ i_counter = 0

(***************************************************************************)
(* Uploader.upload_loop: the sequential upload of a folder.                *)
(***************************************************************************)

\* the entry upload_loop appends to results for a file it uploaded, and the
\* one its "except Exception" appends for a directory or a file
LoopResult(rel, folder_id, outcome) ==
    IF outcome = "raised"
    THEN [relative_path |-> rel, cloud_folder_id |-> -1, success |-> FALSE, kind |-> "error"]
    ELSE [relative_path |-> rel, cloud_folder_id |-> folder_id, success |-> TRUE,
          kind |-> "result"]

\* where "for part in rel_path.parent.parts" stands: what the service holds,
\* the cache, the calls made, current_parent_id, and whether a call raised
WalkState(remote, cache, calls, current_parent_id, raised) ==
    [remote |-> remote, cache |-> cache, calls |-> calls,
     current_parent_id |-> current_parent_id, raised |-> raised]

RECURSIVE WalkParts(_, _, _)
\* upload_loop: the ways "for part in rel_path.parent.parts" ends from the
\* k-th part on
WalkParts(st, parent, k) ==
    IF k > Len(parent) \/ st.raised THEN {st}
    ELSE LET current_path == SubSeq(parent, 1, k)
         IN  IF current_path \in DOMAIN st.cache
             THEN WalkParts([st EXCEPT !.current_parent_id = st.cache[current_path]],
                            parent, k + 1)
             ELSE UNION {
                    WalkParts(
                      WalkState(o.remote,
                                IF o.raised THEN st.cache
                                ELSE CacheSet(st.cache, current_path, o.id),
                                Append(st.calls, EnsureCall(current_path, "upload_loop",
                                                            o.remote # st.remote)),
                                o.id, o.raised),
                      parent, k + 1)
                    : o \in _get_or_create_folder(st.remote, st.current_parent_id,
                                                  parent[k]) }

\* upload_loop: "if parent_rel_path and parent_rel_path not in
\* cloud_folder_cache", with the walk over the parts of the parent
LoopParents(remote, cache, calls, target_id, parent) ==
    IF parent # << >> /\ parent \notin DOMAIN cache
    THEN WalkParts(WalkState(remote, cache, calls, target_id, FALSE), parent, 1)
    ELSE {WalkState(remote, cache, calls, target_id, FALSE)}

\* upload_loop up to the cache: the checks of the arguments, and the remote
\* folder of the local folder itself
UlEnter ==
    /\ uf_pc = "call"
    /\ UNCHANGED <<notUf, uf_args, uf_tree, uf_i, uf_fpc, uf_ftarget, uf_fres,
                   uf_results, uf_summary, uf_progress>>
    /\ IF ~uf_args.is_dir
       THEN /\ uf_pc' = "raised"
            /\ UNCHANGED <<uf_remote, uf_target, uf_cache, uf_calls>>
       ELSE IF uf_args.create_folder
       THEN \E o \in _get_or_create_folder(uf_remote, TargetId, RootName) :
              /\ uf_calls' = Append(uf_calls, EnsureCall(<< >>, "upload_loop", o.remote # uf_remote))
              /\ uf_remote' = o.remote
              /\ IF o.raised
                 THEN /\ uf_pc' = "raised"
                      /\ UNCHANGED <<uf_target, uf_cache>>
                 ELSE /\ uf_pc' = "loop"
                      /\ uf_target' = o.id
                      /\ uf_cache' = CacheSet(<< >>, << >>, o.id)
       ELSE /\ uf_pc' = "loop"
            /\ uf_target' = TargetId
            /\ uf_cache' = CacheSet(<< >>, << >>, TargetId)
            /\ UNCHANGED <<uf_remote, uf_calls>>

\* one turn of "for local_path in all_files" for a directory
UlDirectory ==
    /\ uf_pc = "loop"
    /\ uf_i <= Len(AllItems(uf_tree))
    /\ AllItems(uf_tree)[uf_i].is_dir
    /\ uf_i' = uf_i + 1
    /\ UNCHANGED <<notUf, uf_args, uf_tree, uf_pc, uf_target, uf_fpc, uf_ftarget, uf_fres,
                   uf_summary, uf_progress>>
    /\ LET rel_path == AllItems(uf_tree)[uf_i].rel
           parent_id == CacheGet(uf_cache, RelParent(rel_path), uf_target)
       IN  IF rel_path \in DOMAIN uf_cache
           THEN UNCHANGED <<uf_remote, uf_cache, uf_calls, uf_results>>
           ELSE \E o \in _get_or_create_folder(uf_remote, parent_id,
                                               rel_path[Len(rel_path)]) :
                  /\ uf_calls' = Append(uf_calls, EnsureCall(rel_path, "upload_loop", o.remote # uf_remote))
                  /\ uf_remote' = o.remote
                  /\ IF o.raised
                     THEN /\ uf_results' = Append(uf_results, LoopResult(rel_path, -1, "raised"))
                          /\ UNCHANGED uf_cache
                     ELSE /\ uf_cache' = CacheSet(uf_cache, rel_path, o.id)
                          /\ UNCHANGED uf_results

\* one turn of "for local_path in all_files" for a file
UlFile ==
    /\ uf_pc = "loop"
    /\ uf_i <= Len(AllItems(uf_tree))
    /\ ~AllItems(uf_tree)[uf_i].is_dir
    /\ uf_i' = uf_i + 1
    /\ UNCHANGED <<notUf, uf_args, uf_tree, uf_pc, uf_target, uf_summary, uf_progress>>
    /\ LET rel_path == AllItems(uf_tree)[uf_i].rel
       IN  \E w \in LoopParents(uf_remote, uf_cache, uf_calls, uf_target, RelParent(rel_path)) :
             LET target_folder_id == CacheGet(w.cache, RelParent(rel_path), uf_target)
             IN  /\ uf_remote' = w.remote
                 /\ uf_cache' = w.cache
                 /\ uf_calls' = w.calls
                 /\ uf_fpc' = [uf_fpc EXCEPT ![rel_path] = "harvested"]
                 /\ \E outcome \in (IF w.raised THEN {"raised"} ELSE UploadFileOutcomes) :
                      /\ uf_ftarget' = [uf_ftarget EXCEPT ![rel_path] =
                                          IF w.raised THEN -1 ELSE target_folder_id]
                      /\ uf_fres' = [uf_fres EXCEPT ![rel_path] =
                                       LoopResult(rel_path, target_folder_id, outcome)]
                      /\ uf_results' = Append(uf_results,
                                              LoopResult(rel_path, target_folder_id, outcome))

\* the loop has ended: upload_loop returns its dict
UlReturn ==
    /\ uf_pc = "loop"
    /\ uf_i > Len(AllItems(uf_tree))
    /\ uf_summary' = UpSummary(uf_results)
    /\ uf_pc' = "done"
    /\ UNCHANGED <<notUf, uf_args, uf_tree, uf_remote, uf_target, uf_cache, uf_i,
                   uf_calls, uf_fpc, uf_ftarget, uf_fres, uf_results, uf_progress>>

(***************************************************************************)
(* The specifications.                                                     *)
(***************************************************************************)

InitUpload == UStart({"f1"}) /\ PgIdle /\ DIdle /\ UfIdle /\ AIdle /\ EIdle /\ IIdle

NextUpload ==
    \/ \E f \in u_files : UInit1(f)
    \/ \E f \in u_files : USign(f)
    \/ \E f \in u_files : UToken(f)
    \/ \E f \in u_files : UOss(f)

\* One upload_file call against a service that may answer anything
SpecUpload == InitUpload /\ [][NextUpload]_vars

\* a paginator is called on a folder of pg_N entries; the listing reports
\* the true count, or no count at all (resp.get("count", 0))
InitPage ==
    /\ pg_which \in {"_get_all_items", "_get_all_files"}
    /\ pg_N \in FolderSizes
    /\ pg_count \in {pg_N, 0}
    /\ pg_pc = "loop"
    /\ pg_offset = 0
    /\ pg_all = << >>
    /\ pg_calls = 0
    /\ UIdle
    /\ DIdle
    /\ UfIdle
    /\ AIdle
    /\ EIdle
    /\ IIdle

NextPage == PgFetch \/ PgFetchFails

\* One run of a paginator
SpecPage == InitPage /\ [][NextPage]_vars

\* the names of the remote entries: plain, "..", "/x" and "../x"
NameOf(s) == Path(FALSE, <<s>>)

NameDotDot == Path(FALSE, <<"..">>)

NameAbsolute == Path(TRUE, <<"x">>)

NameWithSeparator == Path(FALSE, <<"..", "x">>)

\* two files
TreePlain == <<Entry(2, 1, "1", NameOf("a"), 2), Entry(3, 1, "1", NameOf("b"), 3)>>

\* two files of the same name
TreeSameName == <<Entry(2, 1, "1", NameOf("a"), 2), Entry(3, 1, "1", NameOf("a"), 3)>>

\* a subfolder with one file, and one file
TreeNested ==
    <<Entry(2, 1, "0", NameOf("s"), 0), Entry(3, 2, "1", NameOf("a"), 3),
      Entry(4, 1, "1", NameOf("b"), 4)>>

HostileTrees ==
    { <<Entry(2, 1, "1", NameDotDot, 2), Entry(3, 1, "1", NameOf("a"), 3)>>,
      <<Entry(2, 1, "1", NameAbsolute, 2), Entry(3, 1, "1", NameOf("a"), 3)>>,
      <<Entry(2, 1, "0", NameDotDot, 0), Entry(3, 2, "1", NameOf("a"), 3)>>,
      <<Entry(2, 1, "1", NameWithSeparator, 2)>> }

PickCodes(tree) ==
    { tree[i].pc : i \in { j \in 1..Len(tree) : tree[j].fc = "1" /\ tree[j].pc # 0 } }

Behaviours == {"ok", "deadurl", "httperr", "fail"}

\* the service's behaviour for the files of r_tree
InitBehaviour ==
    /\ r_beh \in [PickCodes(r_tree) -> Behaviours]
    /\ r_failAt \in [PickCodes(r_tree) -> 0..MaxChunks]
    /\ r_net = NoNet
    /\ \A p \in PickCodes(r_tree) : r_beh[p] # "fail" => r_failAt[p] = 0

\* download_folder is called
InitFolderCall ==
    /\ fs_dirs = InitDirs
    /\ fs_init = fs_files
    /\ df_args \in [mode : {"loop", "concurrent"}, max_workers : 1..MaxWorkers, cpu_count : {1},
                    overwrite : BOOLEAN, create_folder : BOOLEAN]
    /\ df_args.mode = "loop" => df_args.max_workers = 1
    /\ df_pc = "begin"
    /\ df_all = << >>
    /\ df_job = << >>
    /\ df_idx = 1
    /\ df_results = << >>
    /\ df_downloaded = 0
    /\ df_summary = NoSummary
    /\ df_wrote = {}
    /\ df_batch = 1
    /\ df_prev = [summary |-> NoSummary, kept |-> FALSE]
    /\ df_progress = 0

\* a folder download of any of the trees
InitDlFolder ==
    /\ r_tree \in {TreePlain, TreeSameName, TreeNested} \cup HostileTrees
    /\ r_listFails \in (IF r_tree = TreeNested THEN {{}, {2}, {RootId}} ELSE {{}})
    /\ InitBehaviour
    /\ r_tree \in HostileTrees => \A p \in PickCodes(r_tree) : r_beh[p] = "ok"
    /\ fs_files \in (IF r_tree \in HostileTrees
                     THEN {{}}
                     ELSE {{}, {Cwd \o <<"dl", "F", "a">>}})
    /\ InitFolderCall
    /\ r_tree \notin HostileTrees => df_args.create_folder
    /\ UIdle
    /\ PgIdle
    /\ UfIdle
    /\ AIdle
    /\ EIdle
    /\ IIdle

NextDlFolder ==
    \/ DfBegin
    \/ \E i \in 1..Len(df_all) : DlResolve(i)
    \/ \E i \in 1..Len(df_all) : DlCheck(i)
    \/ \E i \in 1..Len(df_all) : DlOpen(i)
    \/ \E i \in 1..Len(df_all) : DlChunk(i)
    \/ \E i \in 1..Len(df_all) : DfHarvest(i)
    \/ DfLoopAppend
    \/ DfFinish

\* One download_folder call
SpecDlFolder == InitDlFolder /\ [][NextDlFolder]_vars

\* two folder downloads of a tree of plain names
InitDlTwice ==
    /\ r_tree \in {TreePlain, TreeSameName}
    /\ r_listFails = {}
    /\ InitBehaviour
    /\ \A p \in PickCodes(r_tree) : r_beh[p] \in {"ok", "deadurl", "fail"}
    /\ fs_files \in {{}, {Cwd \o <<"dl", "F", "a">>}}
    /\ InitFolderCall
    /\ df_args.create_folder
    /\ UIdle
    /\ PgIdle
    /\ UfIdle
    /\ AIdle
    /\ EIdle
    /\ IIdle

NextDlTwice == NextDlFolder \/ DfAgain

\* Two download_folder calls for the same remote folder and save path
SpecDlTwice == InitDlTwice /\ [][NextDlTwice]_vars

\* download(pick_code, save_path, filename) is called for one file
InitDownload ==
    /\ r_tree = << >>
    /\ r_listFails = {}
    /\ r_beh \in [{2} -> Behaviours]
    /\ r_failAt \in [{2} -> 0..MaxChunks]
    /\ r_net = NoNet
    /\ r_beh[2] # "fail" => r_failAt[2] = 0
    /\ fs_dirs = InitDirs
    /\ fs_files \in {{}, {Cwd \o <<"dl", "F", "a">>}}
    /\ fs_init = fs_files
    /\ df_args \in [mode : {"single"}, max_workers : {1}, cpu_count : {1}, overwrite : BOOLEAN,
                    create_folder : {FALSE}]
    /\ df_pc = "single"
    /\ \E save_path \in {PathJoin(SavePath, FolderName), PathJoin(SavePath, NameOf("new"))} :
         df_all = <<[file_id |-> 2, file_name |-> NameOf("a"), pick_code |-> 2,
                     relative_path |-> NameOf("a"),
                     target_path |-> PathJoin(save_path, NameOf("a"))]>>
    /\ df_job = <<[pc |-> "queued", k |-> 0, res |-> NoRes]>>
    /\ df_idx = 1
    /\ df_results = << >>
    /\ df_downloaded = 0
    /\ df_summary = NoSummary
    /\ df_wrote = {}
    /\ df_batch = 1
    /\ df_prev = [summary |-> NoSummary, kept |-> FALSE]
    /\ df_progress = 0
    /\ UIdle
    /\ PgIdle
    /\ UfIdle
    /\ AIdle
    /\ EIdle
    /\ IIdle

NextDownload ==
    \/ \E i \in 1..Len(df_all) : DlResolve(i)
    \/ \E i \in 1..Len(df_all) : DlCheck(i)
    \/ \E i \in 1..Len(df_all) : DlOpen(i)
    \/ \E i \in 1..Len(df_all) : DlChunk(i)

\* One download call
SpecDownload == InitDownload /\ [][NextDownload]_vars

\* upload_folder is called
InitUpFolder ==
    /\ uf_tree \in LocalTrees
    /\ uf_remote \in RemoteStarts
    /\ uf_args \in [is_dir : BOOLEAN, create_folder : BOOLEAN, cpu_count : 2..(MaxUpWorkers + 1),
                    run : {1}]
    /\ ~uf_args.is_dir => uf_tree = << >>
    /\ uf_pc = "call"
    /\ uf_target = TargetId
    /\ uf_cache = << >>
    /\ uf_i = 1
    /\ uf_calls = << >>
    /\ uf_fpc = [f \in FileSet(uf_tree) |-> "queued"]
    /\ uf_ftarget = [f \in FileSet(uf_tree) |-> -1]
    /\ uf_fres = [f \in FileSet(uf_tree) |-> NoUpResult]
    /\ uf_results = << >>
    /\ uf_summary = NoUpSummary
    /\ uf_progress = 0
    /\ UIdle
    /\ PgIdle
    /\ DIdle
    /\ AIdle
    /\ EIdle
    /\ IIdle

NextUpFolder ==
    \/ UfEnter
    \/ UfPrepass
    \/ UfSubmit
    \/ \E f \in FileSet(uf_tree) : UfWorkerStart(f)
    \/ \E f \in FileSet(uf_tree) : UfWorkerEnd(f)
    \/ \E f \in FileSet(uf_tree) : UfHarvest(f)
    \/ UfReturn

\* One upload_folder call
SpecUpFolder == InitUpFolder /\ [][NextUpFolder]_vars

NextUpTwice == NextUpFolder \/ UfAgain

\* Two upload_folder calls, one after the other, for the same local tree
SpecUpTwice == InitUpFolder /\ [][NextUpTwice]_vars

\* download_auto is called
InitAuto ==
    /\ a_args \in [target : Targets, mode : {"loop", "concurrent", "bogus"},
                   overwrite : BOOLEAN]
    /\ a_meta = NoMeta
    /\ a_pc = "call"
    /\ r_tree = TreePlain
    /\ r_listFails \in {{}, {RootId}}
    /\ InitBehaviour
    /\ fs_files = {}
    /\ fs_dirs = InitDirs
    /\ fs_init = fs_files
    /\ df_args = [mode |-> "none", max_workers |-> 0, cpu_count |-> 1, overwrite |-> FALSE,
                  create_folder |-> FALSE]
    /\ df_pc = "idle"
    /\ df_all = << >>
    /\ df_job = << >>
    /\ df_idx = 0
    /\ df_results = << >>
    /\ df_downloaded = 0
    /\ df_summary = NoSummary
    /\ df_wrote = {}
    /\ df_batch = 0
    /\ df_prev = [summary |-> NoSummary, kept |-> FALSE]
    /\ df_progress = 0
    /\ UIdle
    /\ PgIdle
    /\ UfIdle
    /\ EIdle
    /\ IIdle

NextAuto == AutoResolve \/ NextDlFolder

\* One download_auto call
SpecAuto == InitAuto /\ [][NextAuto]_vars

\* an upload_folder call followed by a download_folder call
InitBatches ==
    /\ uf_tree = LocalPair
    /\ uf_remote = {}
    /\ uf_args \in [is_dir : {TRUE}, create_folder : {TRUE}, cpu_count : 2..(MaxUpWorkers + 1),
                    run : {1}]
    /\ uf_pc = "call"
    /\ uf_target = TargetId
    /\ uf_cache = << >>
    /\ uf_i = 1
    /\ uf_calls = << >>
    /\ uf_fpc = [f \in FileSet(uf_tree) |-> "queued"]
    /\ uf_ftarget = [f \in FileSet(uf_tree) |-> -1]
    /\ uf_fres = [f \in FileSet(uf_tree) |-> NoUpResult]
    /\ uf_results = << >>
    /\ uf_summary = NoUpSummary
    /\ uf_progress = 0
    /\ r_tree \in {TreePlain, TreeSameName}
    /\ r_listFails = {}
    /\ InitBehaviour
    /\ \A p \in PickCodes(r_tree) : r_beh[p] # "httperr" /\ r_failAt[p] <= 1
    /\ fs_files = {}
    /\ InitFolderCall
    /\ df_args.create_folder
    /\ ~df_args.overwrite
    /\ UIdle
    /\ PgIdle
    /\ AIdle
    /\ EIdle
    /\ IIdle

\* download_folder is called when upload_folder has returned or raised
DlAfterUp == uf_pc \in {"done", "raised"} /\ NextDlFolder

NextBatches == NextUpFolder \/ DlAfterUp

\* The two batch transfers, one after the other
SpecBatches == InitBatches /\ [][NextBatches]_vars

\* root/{s, s/d/b} where s/d was not a directory when folders was built: the
\* local tree changed between rglob and the is_dir() tests
LocalRaced == <<LocalEntry(<<"s">>, TRUE), LocalEntry(<<"s", "d", "b">>, FALSE)>>

\* upload_folder of a local tree that changes during the call
InitUpRace ==
    /\ uf_tree = LocalRaced
    /\ uf_remote \in RemoteStarts
    /\ uf_args \in [is_dir : {TRUE}, create_folder : BOOLEAN, cpu_count : 2..(MaxUpWorkers + 1),
                    run : {1}]
    /\ uf_pc = "call"
    /\ uf_target = TargetId
    /\ uf_cache = << >>
    /\ uf_i = 1
    /\ uf_calls = << >>
    /\ uf_fpc = [f \in FileSet(uf_tree) |-> "queued"]
    /\ uf_ftarget = [f \in FileSet(uf_tree) |-> -1]
    /\ uf_fres = [f \in FileSet(uf_tree) |-> NoUpResult]
    /\ uf_results = << >>
    /\ uf_summary = NoUpSummary
    /\ uf_progress = 0
    /\ UIdle
    /\ PgIdle
    /\ DIdle
    /\ AIdle
    /\ EIdle
    /\ IIdle

\* One upload_folder call whose file list holds a file of an unlisted directory
SpecUpRace == InitUpRace /\ [][NextUpFolder]_vars

\* what the service may hold: folders and files named "sub" or "x", below
\* the folder 10 or elsewhere
EnsureEntries ==
    { RemoteEntry(11, 10, "0", "sub"), RemoteEntry(12, 10, "1", "sub"),
      RemoteEntry(13, 10, "0", "x"), RemoteEntry(14, 10, "0", "sub"),
      RemoteEntry(15, 11, "0", "sub"), RemoteEntry(16, 10, "1", "x") }

\* _get_or_create_folder is called
InitEnsure ==
    /\ e_args \in [parent_id : {-1, 10}, folder_name : {"sub"}]
    /\ e_remote \in SUBSET EnsureEntries
    /\ e_out = NoOutcome
    /\ e_pc = "call"
    /\ UIdle
    /\ PgIdle
    /\ DIdle
    /\ UfIdle
    /\ AIdle
    /\ IIdle

NextEnsure == EnsureApply

\* One _get_or_create_folder call
SpecEnsure == InitEnsure /\ [][NextEnsure]_vars

\* what os.cpu_count() answers; 0 stands for None
CpuCounts == 0..(MaxUpWorkers + 1)

\* what a caller gives download_folder for max_workers
GivenWorkers == {NoWorkers, 0, DefaultWorkers} \cup 1..MaxWorkers

\* upload_folder and download_folder on machines of every cpu count, with
\* every max_workers; every transfer succeeds
InitPools ==
    /\ uf_tree = LocalPair
    /\ uf_remote = {}
    /\ uf_args \in [is_dir : {TRUE}, create_folder : {TRUE}, cpu_count : CpuCounts,
                    run : {1}]
    /\ uf_pc = "call"
    /\ uf_target = TargetId
    /\ uf_cache = << >>
    /\ uf_i = 1
    /\ uf_calls = << >>
    /\ uf_fpc = [f \in FileSet(uf_tree) |-> "queued"]
    /\ uf_ftarget = [f \in FileSet(uf_tree) |-> -1]
    /\ uf_fres = [f \in FileSet(uf_tree) |-> NoUpResult]
    /\ uf_results = << >>
    /\ uf_summary = NoUpSummary
    /\ uf_progress = 0
    /\ r_tree = TreePlain
    /\ r_listFails = {}
    /\ InitBehaviour
    /\ \A p \in PickCodes(r_tree) : r_beh[p] = "ok"
    /\ fs_files = {}
    /\ fs_dirs = InitDirs
    /\ fs_init = fs_files
    /\ df_args \in [mode : {"loop", "concurrent"}, max_workers : GivenWorkers,
                    cpu_count : {uf_args.cpu_count}, overwrite : {FALSE},
                    create_folder : {TRUE}]
    /\ df_args.mode = "loop" => df_args.max_workers = DefaultWorkers
    /\ df_pc = "begin"
    /\ df_all = << >>
    /\ df_job = << >>
    /\ df_idx = 1
    /\ df_results = << >>
    /\ df_downloaded = 0
    /\ df_summary = NoSummary
    /\ df_wrote = {}
    /\ df_batch = 1
    /\ df_prev = [summary |-> NoSummary, kept |-> FALSE]
    /\ df_progress = 0
    /\ UIdle
    /\ PgIdle
    /\ AIdle
    /\ EIdle
    /\ IIdle

\* The two batch transfers with the pool sizes of every machine and caller
SpecPools == InitPools /\ [][NextBatches]_vars

\* the arguments of an init call: sizes and digests given or left out
InitCalls ==
    [file_size : {Absent, <<0>>, <<-1>>, <<5>>},
     fileid : {Absent, <<"">>, <<"sha">>},
     sign_key : {Absent, <<"k">>},
     sign_val : {Absent, <<"V">>}]

InitInit ==
    /\ i_args \in InitCalls
    /\ i_found \in {"nofile", "empty", "f1"}
    /\ i_pc = "call"
    /\ i_requests = 0
    /\ i_counter \in 0..1
    /\ UIdle
    /\ PgIdle
    /\ DIdle
    /\ UfIdle
    /\ AIdle
    /\ EIdle

NextInit == InitApply

\* One Uploader.init call
SpecInit == InitInit /\ [][NextInit]_vars

\* upload_loop is called
InitUpLoop ==
    /\ uf_tree \in {LocalPair, LocalDeep}
    /\ uf_remote \in {{}, {RemoteEntry(10, TargetId, "0", RootName)}}
    /\ uf_args \in [is_dir : BOOLEAN, create_folder : BOOLEAN, cpu_count : {1}, run : {1}]
    /\ uf_pc = "call"
    /\ uf_target = TargetId
    /\ uf_cache = << >>
    /\ uf_i = 1
    /\ uf_calls = << >>
    /\ uf_fpc = [f \in FileSet(uf_tree) |-> "queued"]
    /\ uf_ftarget = [f \in FileSet(uf_tree) |-> -1]
    /\ uf_fres = [f \in FileSet(uf_tree) |-> NoUpResult]
    /\ uf_results = << >>
    /\ uf_summary = NoUpSummary
    /\ uf_progress = 0
    /\ UIdle
    /\ PgIdle
    /\ DIdle
    /\ AIdle
    /\ EIdle
    /\ IIdle

NextUpLoop == UlEnter \/ UlDirectory \/ UlFile \/ UlReturn

\* One upload_loop call
SpecUpLoop == InitUpLoop /\ [][NextUpLoop]_vars

(***************************************************************************)
(* Claims about the upload negotiation (SpecUpload).                       *)
(***************************************************************************)

\* the init response upload_file finally evaluates has status 2
FinalInitIsInstant(f) ==
    /\ AnsweredInits(f) # << >>
    /\ AnsweredInits(f)[Len(AnsweredInits(f))].status = 2

\* C1: whenever the init response that upload_file finally evaluates (the
\* first, or the signed resubmission's) has status 2, upload_file has
\* returned True and neither get_token nor the object transfer was invoked.
C1_InstantSkipsTransfer ==
    \A f \in u_files :
        FinalInitIsInstant(f) =>
            /\ u_pc[f] = "ret"
            /\ u_ret[f] = "True"
            /\ ~Issued(f, "get_token")
            /\ ~Issued(f, "oss")

\* a status 2 answer to the signed resubmission ended the call
C1_Witness ==
    \E f \in u_files :
        /\ FinalInitIsInstant(f)
        /\ Len(AnsweredInits(f)) = 2
        /\ u_ret[f] = "True"

\* the init response upload_file finally evaluates has status 1
FinalInitIsStatusOne(f) ==
    /\ AnsweredInits(f) # << >>
    /\ AnsweredInits(f)[Len(AnsweredInits(f))].status = 1

\* C12: an init response with status 1 ends upload_file like status 2: it
\* returns True, and neither get_token nor the object transfer is invoked.
C12_StatusOneIsInstant ==
    \A f \in u_files :
        FinalInitIsStatusOne(f) =>
            /\ u_pc[f] = "ret"
            /\ u_ret[f] = "True"
            /\ ~Issued(f, "get_token")
            /\ ~Issued(f, "oss")

\* the response field is present and not empty
Carries(s) == s \notin {"None", ""}

\* C19: init_with_auto_sign computes the digest and issues the signed init
\* only when the first response is in the challenge status set (or carries a
\* challenge code) and has both a sign_check and a sign_key; a challenge
\* without sign_check or sign_key causes no resubmission.
C19_SignOnlyWithChallengeFields ==
    \A f \in u_files :
        u_pc[f] = "sign" =>
            LET item == _extract_data(u_resp[f])
            IN  /\ item.status \in ChallengeStatuses \/ CodeOf(u_resp[f]) \in ChallengeCodes
                /\ Carries(item.sign_check)
                /\ Carries(item.sign_key)

\* the init requests issued for f
InitsOf(f) == SelectSeq(u_log[f], LAMBDA e : e.op = "init")

Terminal(f) == u_pc[f] \in {"ret", "raised"}

\* C20: whatever the service answers, one upload_file negotiation issues at
\* most two init requests, the original and one signed resubmission, and
\* then goes on to a terminal outcome: a second challenge is not answered
\* with a third init.
C20_AtMostTwoInits ==
    \A f \in u_files :
        /\ Len(InitsOf(f)) <= 2
        /\ Len(InitsOf(f)) >= 1 => ~InitsOf(f)[1].signed
        /\ Len(InitsOf(f)) = 2 => InitsOf(f)[2].signed /\ u_pc[f] \notin {"start", "sign"}
        /\ Len(u_log[f]) <= 4
        /\ ~Terminal(f) => ENABLED (UInit1(f) \/ USign(f) \/ UToken(f) \/ UOss(f))

C20_Witness ==
    \E f \in u_files :
        /\ Len(InitsOf(f)) = 2
        /\ InitsOf(f)[2].status \in ChallengeStatuses
        /\ Terminal(f)

\* the signed init of f was answered with a challenge again
SecondChallenge(f) ==
    /\ Len(InitsOf(f)) = 2
    /\ InitsOf(f)[2].status \in ChallengeStatuses

\* C21: when the answer to the signed resubmission is a challenge again
\* (status 6, 7 or 8), the negotiation fails for that file: the file is not
\* reported as uploaded and the object transfer is not started for it.
C21_SecondChallengeFails ==
    \A f \in u_files :
        SecondChallenge(f) => ~Issued(f, "oss") /\ u_ret[f] # "True"

\* the request data of the first init of f and of its signed resubmission
FirstInit(f) == InitsOf(f)[1]

Resubmission(f) == InitsOf(f)[2]

\* the fields of an init request other than the signing fields
Unsigned(req) == [req EXCEPT !.sign_key = Absent, !.sign_val = Absent]

\* C22: the signed resubmission is the first init request with only the
\* signing fields added: file name, size, target and both digests are those
\* of the first request, sign_key is the key the server returned and
\* sign_val is the digest of the byte range named by sign_check.
C22_ResubmissionAddsOnlySigning ==
    \A f \in u_files :
        Len(InitsOf(f)) = 2 =>
            /\ Unsigned(Resubmission(f).req) = FirstInit(f).req
            /\ Carries(FirstInit(f).item.sign_key)
            /\ Resubmission(f).req.sign_key = <<FirstInit(f).item.sign_key>>
            /\ Resubmission(f).req.sign_val
                 = calc_sign_val(f, FirstInit(f).item.sign_check)

\* the part of C22 that holds: the fields carried over from the first request
ResubmissionKeepsRequest ==
    \A f \in u_files :
        Len(InitsOf(f)) = 2 => Unsigned(Resubmission(f).req) = FirstInit(f).req

\* the init of f was answered once, with neither the instant status nor a
\* challenge
ReadyForTransfer(f) ==
    /\ Len(InitsOf(f)) = 1
    /\ FirstInit(f).status \notin {-1, 2} \cup ChallengeStatuses
    /\ u_pc[f] # "sign"

\* the position in the log of the first request of this kind, 0 if none
FirstOf(f, op) ==
    IF Issued(f, op)
    THEN CHOOSE i \in 1..Len(u_log[f]) :
           u_log[f][i].op = op /\ \A j \in 1..(i - 1) : u_log[f][j].op # op
    ELSE 0

\* C23: for an init outcome that is neither instant nor a challenge,
\* upload_file calls get_token first, then starts the object transfer, and
\* returns True only when that transfer completes; when the token call or
\* the transfer fails the file is not reported as uploaded.
C23_TokenThenTransfer ==
    \A f \in u_files :
        ReadyForTransfer(f) =>
            /\ Issued(f, "oss") => 0 < FirstOf(f, "get_token")
                                   /\ FirstOf(f, "get_token") < FirstOf(f, "oss")
            /\ Issued(f, "oss") => u_token[f] = "ok"
            /\ u_ret[f] = "True" <=>
                  (Issued(f, "oss") /\ u_log[f][FirstOf(f, "oss")].status = 0)
            /\ u_pc[f] = "raised" => u_ret[f] # "True"

C23_Witness ==
    \E f \in u_files :
        /\ ReadyForTransfer(f)
        /\ FirstInit(f).status = 1
        /\ Len(u_log[f]) = 3
        /\ u_ret[f] = "True"

(***************************************************************************)
(* Claims about the paginators (SpecPage).                                 *)
(***************************************************************************)

\* C9: for a folder of N entries whose listing reports count = N, the
\* paginator returns every entry exactly once, in max(1, ceil(N / limit))
\* listing requests.
C9_PaginationExact ==
    (pg_pc = "done" /\ pg_count = pg_N) =>
        /\ pg_all = [i \in 1..pg_N |-> i]
        /\ pg_calls = Max(1, (pg_N + PageLimit - 1) \div PageLimit)

\* count = 2300 = 2 pages of 1150: flattened in exactly 2 requests
C9_Witness ==
    /\ pg_pc = "done"
    /\ pg_N = 2 * PageLimit
    /\ pg_count = pg_N
    /\ pg_calls = 2
    /\ Len(pg_all) = 2300

\* C38: when the listing response carries no count (read as 0), either
\* paginator stops after the first page that is not empty and returns that
\* page only, also when the page is full and the folder holds more entries.
C38_NoCountStopsAfterFirstPage ==
    (pg_pc = "done" /\ pg_count = 0 /\ pg_N > 0) =>
        /\ pg_calls = 1
        /\ pg_all = [i \in 1..Min(pg_N, PageLimit) |-> i]

\* a folder of 2301 entries listed without count: one request, 1150 entries
C38_Witness ==
    /\ pg_pc = "done"
    /\ pg_count = 0
    /\ pg_N = 2 * PageLimit + 1
    /\ pg_calls = 1
    /\ Len(pg_all) = PageLimit

(***************************************************************************)
(* Claims about the single download (SpecDownload).                        *)
(***************************************************************************)

\* the stream of the file at position i broke after its destination was opened
StreamInterrupted(i) ==
    /\ df_job[i].pc = "ret"
    /\ i \in df_wrote
    /\ r_beh[df_all[i].pick_code] = "fail"

BatchDone == df_pc = "done" /\ df_summary.kind = "batch"

\* the positions of the results recorded for the file at position i of all_files
ResultsOf(summary, i) ==
    { j \in 1..Len(summary.results) :
        summary.results[j].pick_code = df_all[i].pick_code }

\* the service does not deliver the file at position i
Dead(i) == r_beh[df_all[i].pick_code] # "ok"

\* the file at position i has a plain name and a destination of its own that
\* is free, or may be overwritten
DestinationUsable(i) ==
    /\ df_all[i].file_name.parts # <<"..">>
    /\ Len(df_all[i].file_name.parts) = 1
    /\ ~df_all[i].file_name.abs
    /\ \/ df_args.overwrite
       \/ /\ Resolved(FullPath(df_all[i])) \notin fs_init
          /\ \A j \in 1..Len(df_all) :
               j # i => Resolved(FullPath(df_all[j])) # Resolved(FullPath(df_all[i]))

\* C3: in a folder download (loop or concurrent) every file whose URL is
\* dead or whose stream fails has a result with success = false and is
\* counted in failed, the batch success is then false, and every sibling
\* the service delivers to a usable destination is downloaded and counted.
C3_DeadUrlDoesNotStopSiblings ==
    BatchDone =>
        /\ \A i \in 1..Len(df_all) :
             /\ Cardinality(ResultsOf(df_summary, i)) = 1
             /\ Dead(i) =>
                  \A j \in ResultsOf(df_summary, i) : ~df_summary.results[j].success
             /\ (~Dead(i) /\ DestinationUsable(i)) =>
                  \A j \in ResultsOf(df_summary, i) : df_summary.results[j].success
        /\ df_summary.downloaded =
             Cardinality({ j \in 1..Len(df_summary.results) : df_summary.results[j].success })
        /\ df_summary.failed = df_summary.total_files - df_summary.downloaded
        /\ (\E i \in 1..Len(df_all) : Dead(i)) => ~df_summary.success

\* a concurrent batch of two files, the first with a dead URL, the second downloaded
C3_Witness ==
    /\ BatchDone
    /\ df_args.mode = "concurrent"
    /\ df_args.max_workers = 2
    /\ Len(df_all) = 2
    /\ r_beh[df_all[1].pick_code] = "deadurl"
    /\ r_beh[df_all[2].pick_code] = "ok"
    /\ df_summary.failed = 1
    /\ df_summary.downloaded = 1
    /\ ~df_summary.success

\* C5: no per-file result of a folder download has a destination outside
\* the local save root.
C5_DestinationsUnderRoot ==
    BatchDone =>
        \A j \in 1..Len(df_summary.results) :
            df_summary.results[j].save_path # EmptyPath =>
                Under(df_summary.save_path, df_summary.results[j].save_path)

\* the first batch recorded a success for the file at position i
SucceededBefore(i) ==
    \E j \in ResultsOf(df_prev.summary, i) : df_prev.summary.results[j].success

\* C6: in a second download of the same folder to the same save path with
\* overwrite = false, no file that succeeded in the first batch is written
\* again, and each is reported with the "already exists" record.
C6_SecondBatchSkips ==
    (df_batch = 2 /\ df_prev.kept /\ ~df_args.overwrite) =>
        \A i \in 1..Len(df_all) :
            SucceededBefore(i) =>
                /\ i \notin df_wrote
                /\ BatchDone =>
                     \A j \in ResultsOf(df_summary, i) :
                         df_summary.results[j].message = "exists"

\* what a summary says apart from the order of its results
Aggregate(summary) ==
    [success |-> summary.success, total_files |-> summary.total_files,
     downloaded |-> summary.downloaded, failed |-> summary.failed,
     results |-> { summary.results[j] : j \in 1..Len(summary.results) }]

\* C10: for the same tree, disk and service behaviour, the loop mode and
\* the concurrent mode return the same aggregate.
C10_ModesAgree ==
    (df_batch = 2 /\ ~df_prev.kept /\ BatchDone) =>
        Aggregate(df_summary) = Aggregate(df_prev.summary)

(***************************************************************************)
(* Claims about the folder upload (SpecUpFolder).                          *)
(***************************************************************************)

\* upload_file was called for f
Attempted(f) == uf_fpc[f] # "queued"

\* the turns of the as_completed loop that recorded f
RecordsOf(f) == { j \in 1..Len(uf_results) : uf_results[j].relative_path = f }

\* C2: upload_folder attempts every enumerated file whatever happens to the
\* other files: a file's failure never makes upload_folder raise and never
\* keeps another file from being attempted, and the call returns the
\* summary with one record per file.
C2_NoFailFast ==
    /\ uf_pc = "raised" => \A f \in FileSet(uf_tree) : ~Attempted(f)
    /\ uf_pc = "fanout" =>
         \/ \A f \in FileSet(uf_tree) : uf_fpc[f] = "harvested"
         \/ \E f \in FileSet(uf_tree) : uf_fpc[f] \in {"running", "finished"}
         \/ UfRunning < UpWorkers(uf_args.cpu_count)
    /\ uf_pc = "done" =>
         /\ \A f \in FileSet(uf_tree) : Attempted(f) /\ Cardinality(RecordsOf(f)) = 1
         /\ uf_summary.state
         /\ uf_summary.total = Cardinality(FileSet(uf_tree))
         /\ uf_summary.failed =
              Cardinality({ f \in FileSet(uf_tree) : ~uf_fres[f].success })

\* the first file seen by the loop failed, and a file seen after it was uploaded
C2_Witness ==
    /\ uf_pc = "done"
    /\ Len(uf_results) >= 2
    /\ ~uf_results[1].success
    /\ uf_results[2].success
    /\ uf_summary.failed = 1

\* the _get_or_create_folder calls made for the local directory dir
CallsFor(dir) == { j \in 1..Len(uf_calls) : uf_calls[j].dir = dir }

\* the local directories: the folder itself and those below it
LocalDirs ==
    {<< >>} \cup { LocalFolders(uf_tree)[i].rel : i \in 1..Len(LocalFolders(uf_tree)) }

\* C7: in one upload_folder call _get_or_create_folder is called at most
\* once for each local directory, however many files it holds, and never
\* by upload_single_file.
C7_EnsureOncePerDirectory ==
    /\ \A dir \in LocalDirs : Cardinality(CallsFor(dir)) <= 1
    /\ \A j \in 1..Len(uf_calls) :
         uf_calls[j].by = "upload_folder" /\ uf_calls[j].dir \in LocalDirs

\* two files of one subdirectory were uploaded and its folder was resolved once
C7_Witness ==
    /\ uf_pc = "done"
    /\ \E f, g \in FileSet(uf_tree) :
         /\ f # g
         /\ RelParent(f) = RelParent(g)
         /\ RelParent(f) # << >>
         /\ uf_fres[f].success
         /\ uf_fres[g].success
         /\ Cardinality(CallsFor(RelParent(f))) = 1

RECURSIVE RemotePath(_, _)
\* the names on the way from the target down to the remote folder id
RemotePath(remote, id) ==
    IF id = TargetId \/ ~(\E e \in remote : e.fid = id) THEN << >>
    ELSE LET e == CHOOSE x \in remote : x.fid = id
         IN  Append(RemotePath(remote, e.pid), e.fn)

\* C8: with create_folder = true every file is uploaded into the remote
\* folder that mirrors its local parent directory below the folder named
\* after the local root under the target; the folder of a subdirectory is
\* not the root folder; and the batch total is the number of local files.
C8_MirrorsLocalTree ==
    uf_args.create_folder =>
        /\ \A f \in FileSet(uf_tree) :
             Attempted(f) =>
                 /\ uf_ftarget[f] # TargetId
                 /\ \E e \in uf_remote : e.fid = uf_ftarget[f] /\ e.fc = "0"
                 /\ RemotePath(uf_remote, uf_ftarget[f]) = <<RootName>> \o RelParent(f)
                 /\ RelParent(f) # << >> => uf_ftarget[f] # uf_cache[<< >>]
        /\ uf_pc = "done" => uf_summary.total = Cardinality(FileSet(uf_tree))

\* root/{a, sub/b} was uploaded into a new remote folder root and its folder sub
C8_Witness ==
    /\ uf_pc = "done"
    /\ uf_args.create_folder
    /\ uf_tree = LocalPair
    /\ \A f \in FileSet(uf_tree) : uf_fres[f].success
    /\ uf_ftarget[<<"a">>] # uf_ftarget[<<"sub", "b">>]
    /\ uf_summary.total = 2
    /\ Cardinality(uf_remote) = 2

\* C11: the summary of a folder upload declares the batch successful if
\* and only if every file's success flag is true: with a failed file
\* neither its state nor its success entry reads as true.
C11_BatchSuccessIffAllSucceeded ==
    uf_pc = "done" =>
        /\ (\A f \in FileSet(uf_tree) : uf_fres[f].success) => uf_summary.state
        /\ (\E f \in FileSet(uf_tree) : ~uf_fres[f].success) =>
               ~(uf_summary.state /\ uf_summary.success > 0)

\* the _get_or_create_folder calls of the second run
SecondRunCalls == IF uf_args.run = 2 THEN uf_calls ELSE << >>

\* C13: a second upload_folder of the same tree to the same target creates
\* no folder, and no parent holds two folders of one name.
C13_SecondUploadCreatesNothing ==
    /\ \A j \in 1..Len(SecondRunCalls) : ~SecondRunCalls[j].created
    /\ \A d, e \in uf_remote :
         (d.fc = "0" /\ e.fc = "0" /\ d.pid = e.pid /\ d.fn = e.fn) => d = e

\* the second run resolved the root folder and the subdirectory by listing
C13_Witness ==
    /\ uf_args.run = 2
    /\ uf_pc = "done"
    /\ uf_args.create_folder
    /\ uf_tree = LocalPair
    /\ Len(uf_calls) = 2
    /\ \A f \in FileSet(uf_tree) : uf_fres[f].success


(***************************************************************************)
(* Claims about download_auto and download_by_path.                        *)
(***************************************************************************)

\* the metadata call was answered and download_auto has returned, raised
\* or handed over to download / download_folder
Resolved_(target) == a_pc # "call" /\ a_args.target = target /\ a_meta.state

\* C14: download_auto and download_by_path given a remote path that
\* designates a directory reject it with a failure result, and then no
\* download URL is resolved, no folder is listed and no local file is written.
C14_PathToDirectoryRejected ==
    (Resolved_("path") /\ a_meta.file_category = "0") =>
        /\ a_pc = "failed"
        /\ r_net.downurl = 0
        /\ r_net.files = 0
        /\ df_pc = "idle"
        /\ fs_files = fs_init

C14_Witness ==
    /\ Resolved_("path")
    /\ a_meta.file_category = "0"
    /\ a_meta.pick_code # 0
    /\ a_pc = "failed"
    /\ r_net.get_info = 1

\* C15: download_auto given a numeric identifier downloads a folder if and
\* only if the metadata marks the target as a directory; otherwise it makes
\* a single-file download with the pick code of the metadata, one downurl
\* call and no folder listing.
C15_BranchesOnDirectoryFlag ==
    Resolved_("id") =>
        /\ (a_pc = "folder") <=> (a_meta.file_category = "0")
        /\ (a_meta.file_category # "0" /\ a_meta.pick_code # 0) => a_pc = "file"
        /\ a_pc = "file" =>
             /\ Len(df_all) = 1
             /\ df_all[1].pick_code = a_meta.pick_code
             /\ r_net.files = 0
             /\ r_net.downurl <= 1
             /\ (df_job[1].pc = "ret" /\ df_job[1].res.success) => r_net.downurl = 1

C15_Witness ==
    /\ Resolved_("id")
    /\ a_meta.file_category = "absent"
    /\ a_pc = "file"
    /\ df_job[1].pc = "ret"
    /\ df_job[1].res.success
    /\ r_net.downurl = 1

\* the metadata call was not answered with a true state, or the file it
\* describes has no pick code
ResolutionFailed ==
    /\ a_pc # "call"
    /\ a_args.target \in {"path", "id"}
    /\ \/ ~a_meta.state
       \/ a_meta.file_category # "0" /\ a_meta.pick_code = 0

\* C16: when the target resolution of download_auto fails, the call reports
\* the failure at once: one metadata call, no download URL call, no folder
\* listing and no local file write.
C16_ResolutionFailureIsFinal ==
    ResolutionFailed =>
        /\ a_pc \in {"failed", "raised"}
        /\ r_net = [get_info |-> 1, files |-> 0, downurl |-> 0]
        /\ df_pc = "idle"
        /\ df_wrote = {}
        /\ fs_files = fs_init

C16_Witness ==
    /\ ResolutionFailed
    /\ a_meta.state
    /\ a_args.target = "id"
    /\ a_pc = "raised"
    /\ r_net.get_info = 1


\* C17: a download request with a mode other than "concurrent" or "loop" is
\* rejected by raising the argument error before any metadata, listing or
\* download URL request, for download_folder and for download_auto with a
\* numeric folder target.
C17_InvalidModeRaisedBeforeRequests ==
    (a_args.mode = "bogus" /\ a_args.target = "id" /\ a_pc # "call") =>
        /\ a_pc = "raised"
        /\ r_net = NoNet
        /\ df_pc # "done"

\* C18: when the listing of the requested remote folder itself fails, the
\* folder download yields a failure record, never a successful batch with
\* zero files.
C18_RootListingFailureIsFailure ==
    (RootId \in r_listFails /\ BatchDone) => ~df_summary.success


(***************************************************************************)
(* Claims about the result lists of the batch transfers.                   *)
(***************************************************************************)

\* the files of the upload batch whose future the loop has seen
UpHarvested == { f \in FileSet(uf_tree) : uf_fpc[f] = "harvested" }

\* the files of the download batch whose future the loop has seen
DlHarvested == { i \in 1..Len(df_job) : df_job[i].pc = "harvested" }

\* the positions of results that hold the record the worker of file i returned
DlRecordsOf(i) == { j \in 1..Len(df_results) : df_results[j] = df_job[i].res }

\* the files of the download batch whose worker returned what the worker
\* of file i returned
DlSameRecord(i) == { k \in DlHarvested : df_job[k].res = df_job[i].res }

\* C24: in upload_folder and in the concurrent folder download, for every
\* interleaving of the workers, the result list holds exactly one record per
\* file whose worker has ended and the progress counter has advanced once
\* per such file, also when the worker ended in an exception; at the end
\* there is one record per submitted file.
C24_OneRecordPerFile ==
    /\ uf_pc \in {"fanout", "done"} =>
         /\ \A f \in FileSet(uf_tree) :
              Cardinality(RecordsOf(f)) = (IF f \in UpHarvested THEN 1 ELSE 0)
         /\ Len(uf_results) = Cardinality(UpHarvested)
         /\ uf_progress = Cardinality(UpHarvested)
         /\ uf_pc = "done" => /\ UpHarvested = FileSet(uf_tree)
                              /\ uf_summary.data = uf_results
    /\ (df_args.mode = "concurrent" /\ df_pc \in {"run", "done"}) =>
         /\ \A i \in 1..Len(df_job) :
              i \in DlHarvested =>
                  Cardinality(DlRecordsOf(i)) = Cardinality(DlSameRecord(i))
         /\ Len(df_results) = Cardinality(DlHarvested)
         /\ df_progress = Cardinality(DlHarvested)
         /\ BatchDone => /\ DlHarvested = 1..Len(df_all)
                         /\ df_summary.results = df_results

C24_Witness ==
    /\ uf_pc = "done"
    /\ Cardinality(FileSet(uf_tree)) = 2
    /\ \E f \in FileSet(uf_tree) : ~uf_fres[f].success
    /\ df_args.mode = "concurrent"
    /\ df_args.max_workers = 2
    /\ BatchDone
    /\ Len(df_all) = 2
    /\ \E i \in 1..2 : ~df_job[i].res.success
    /\ df_progress = 2
    /\ uf_progress = 2


\* the directory the pre-pass resolves next
NextDir == LocalFolders(uf_tree)[uf_i].rel

\* the parent id the pre-pass passes to _get_or_create_folder for it
ParentIdPassed == CacheGet(uf_cache, RelParent(NextDir), uf_target)

\* the names from the target down to the remote folder of a local directory
MirrorPath(dir) == (IF uf_args.create_folder THEN <<RootName>> ELSE << >>) \o dir

\* C25: the pre-pass of upload_folder resolves the directories in ascending
\* path depth; whenever a directory is resolved its parent's relative path
\* is in the cache and the parent id passed to _get_or_create_folder is the
\* id of the parent's remote folder, the target root id for top-level
\* directories only.
C25_ParentBeforeChild ==
    (uf_pc = "prepass" /\ uf_i <= Len(LocalFolders(uf_tree))) =>
        /\ \A j \in 1..(uf_i - 1) : Len(LocalFolders(uf_tree)[j].rel) <= Len(NextDir)
        /\ RelParent(NextDir) \in DOMAIN uf_cache
        /\ ParentIdPassed = uf_cache[RelParent(NextDir)]
        /\ (ParentIdPassed = uf_target) <=> (Len(NextDir) = 1)
        /\ Len(NextDir) > 1 =>
             /\ \E e \in uf_remote : e.fid = ParentIdPassed /\ e.fc = "0"
             /\ RemotePath(uf_remote, ParentIdPassed) = MirrorPath(RelParent(NextDir))

C25_Witness ==
    /\ uf_pc = "prepass"
    /\ uf_tree = LocalDeep
    /\ uf_i = 3
    /\ NextDir = <<"s", "d">>
    /\ ParentIdPassed = uf_cache[<<"s">>]
    /\ ParentIdPassed # uf_target


\* every local directory has its remote folder id in the cache
DirsResolved ==
    \A i \in 1..Len(LocalFolders(uf_tree)) : LocalFolders(uf_tree)[i].rel \in DOMAIN uf_cache

\* a step that writes the cache or calls _get_or_create_folder
CacheWrite == uf_cache' # uf_cache \/ uf_calls' # uf_calls

\* C26: in upload_folder every write to the directory-id cache happens in
\* the sequential pre-pass, before the first file upload starts: no file is
\* attempted before the last directory is resolved, and during the fan-out
\* the cache is read only.
C26_CacheWrittenBeforeFanOut ==
    /\ [](\A f \in FileSet(uf_tree) : Attempted(f) => DirsResolved)
    /\ [][CacheWrite => /\ uf_pc \in {"call", "prepass"}
                        /\ \A f \in FileSet(uf_tree) : ~Attempted(f)]_vars

C26_Witness ==
    /\ uf_pc = "fanout"
    /\ uf_tree = LocalDeep
    /\ DirsResolved
    /\ Cardinality(DOMAIN uf_cache) = 4
    /\ \E f \in FileSet(uf_tree) : uf_fpc[f] = "running"


\* a _get_or_create_folder call of upload_folder ended without an id: its
\* directory did not reach the cache
FailedResolution ==
    \E j \in 1..Len(uf_calls) :
        uf_calls[j].by = "upload_folder" /\ uf_calls[j].dir \notin DOMAIN uf_cache

\* C27: when resolving or creating a remote folder fails in the root-folder
\* step or in the pre-pass of upload_folder, the batch aborts by raising and
\* no file of the tree is attempted.
C27_FolderFailureAbortsBatch ==
    FailedResolution =>
        /\ uf_pc = "raised"
        /\ \A f \in FileSet(uf_tree) : ~Attempted(f)
        /\ uf_results = << >>
        /\ uf_summary = NoUpSummary

C27_Witness ==
    /\ FailedResolution
    /\ uf_tree = LocalDeep
    /\ Len(uf_calls) = 3
    /\ uf_calls[3].created
    /\ uf_pc = "raised"


RECURSIVE NearestResolved(_)
\* the nearest ancestor of a relative directory that is in the cache
NearestResolved(dir) ==
    IF dir \in DOMAIN uf_cache \/ dir = << >> THEN dir
    ELSE NearestResolved(RelParent(dir))

\* C28: when a file's parent relative path is not in the directory-id cache
\* at upload time, the worker uploads the file into the nearest ancestor
\* directory that is resolved in the cache, into the target root only when no
\* nearer ancestor is resolved.
C28_FallsBackToNearestAncestor ==
    \A f \in FileSet(uf_tree) :
        (Attempted(f) /\ RelParent(f) \notin DOMAIN uf_cache) =>
            uf_ftarget[f] = uf_cache[NearestResolved(RelParent(f))]


(***************************************************************************)
(* Claims about _get_or_create_folder (SpecEnsure).                        *)
(***************************************************************************)

\* the children of the parent that are folders of the name asked for
FolderChildren ==
    { e \in e_remote :
        e.pid = e_args.parent_id /\ e.fc = "0" /\ e.fn = e_args.folder_name }

\* C29: _get_or_create_folder(parent, name) returns the id of a child of
\* parent that is a folder of exactly that name, without a create call, when
\* the listing holds one; otherwise, also when only a file has that name, it
\* issues exactly one create call and returns the new id; it raises before
\* any request for a negative parent.
C29_GetOrCreateFolder ==
    e_pc \in {"returned", "raised"} =>
        /\ e_args.parent_id < 0 =>
             e_pc = "raised" /\ e_out.lists = 0 /\ e_out.adds = 0
        /\ (e_args.parent_id >= 0 /\ FolderChildren # {}) =>
             /\ e_out.adds = 0
             /\ e_out.remote = e_remote
             /\ e_pc = "returned" => \E e \in FolderChildren : e_out.id = e.fid
        /\ (e_args.parent_id >= 0 /\ FolderChildren = {}) =>
             /\ e_out.adds <= 1
             /\ e_pc = "returned" =>
                  /\ e_out.adds = 1
                  /\ \A e \in e_remote : e.fid # e_out.id
                  /\ e_out.remote = e_remote \cup
                       {RemoteEntry(e_out.id, e_args.parent_id, "0", e_args.folder_name)}

\* only a file of that name exists: a folder is created
C29_Witness ==
    /\ e_pc = "returned"
    /\ e_args.parent_id = 10
    /\ RemoteEntry(12, 10, "1", "sub") \in e_remote
    /\ FolderChildren = {}
    /\ e_out.adds = 1
    /\ e_out.id = 17


(***************************************************************************)
(* Claims about the flattening of a remote folder (SpecDlFolder).          *)
(***************************************************************************)

\* the files below the remote folder, at any depth
RemoteFiles == { k \in 1..Len(r_tree) : r_tree[k].fc = "1" }

RECURSIVE NamesDown(_)
\* the names of the folders from the flattened root down to an entry, and
\* the entry's own name
NamesDown(e) ==
    IF e.pid = RootId THEN e.fn
    ELSE LET up == CHOOSE x \in { r_tree[k] : k \in 1..Len(r_tree) } : x.fid = e.pid
         IN  Path(NamesDown(up).abs, NamesDown(up).parts \o e.fn.parts)

\* the descriptors made for the entry at position k of the tree
DescriptorsOf(k) == { i \in 1..Len(df_all) : df_all[i].file_id = r_tree[k].fid }

\* download_folder has flattened the folder, and every listing succeeded
Flattened == r_listFails = {} /\ (df_pc = "run" \/ BatchDone)

\* C30: flattening a remote folder whose listings all succeed returns
\* exactly one descriptor per remote file at any depth, with the file's pick
\* code, the names from the flattened root down to the file as relative
\* path, and the local base joined with that relative path as destination;
\* a directory gets no descriptor.
C30_OneDescriptorPerFile ==
    Flattened =>
        /\ Len(df_all) = Cardinality(RemoteFiles)
        /\ \A k \in 1..Len(r_tree) :
             IF k \in RemoteFiles
             THEN /\ Cardinality(DescriptorsOf(k)) = 1
                  /\ \A i \in DescriptorsOf(k) :
                       /\ df_all[i].pick_code = r_tree[k].pc
                       /\ df_all[i].relative_path = NamesDown(r_tree[k])
                       /\ df_all[i].target_path =
                            PathJoin(BaseDir, NamesDown(r_tree[k]))
             ELSE DescriptorsOf(k) = {}

\* the file a of the subfolder s is flattened to s/a below dl/F
C30_Witness ==
    /\ Flattened
    /\ r_tree = TreeNested
    /\ df_args.create_folder
    /\ Len(df_all) = 2
    /\ df_all[1].relative_path = Path(FALSE, <<"s", "a">>)
    /\ df_all[1].target_path = Path(FALSE, <<"dl", "F", "s", "a">>)


\* the entry of the tree with this id
EntryOf(fid) == CHOOSE x \in { r_tree[k] : k \in 1..Len(r_tree) } : x.fid = fid

RECURSIVE UnderFailed(_)
\* the entry lies under a subfolder whose listing fails
UnderFailed(e) ==
    /\ e.pid # RootId
    /\ e.pid \in r_listFails \/ UnderFailed(EntryOf(e.pid))

\* download_folder has flattened the folder, whose own listing succeeded
FlattenedPartly == RootId \notin r_listFails /\ (df_pc = "run" \/ BatchDone)

\* C31: when the listing of a subfolder S fails during the flattening, the
\* flattening does not raise and leaves out exactly the files under S: every
\* other file of the tree has its descriptor.
C31_FailedSubfolderOmitted ==
    FlattenedPartly =>
        \A k \in RemoteFiles :
            Cardinality(DescriptorsOf(k)) = (IF UnderFailed(r_tree[k]) THEN 0 ELSE 1)

C31_Witness ==
    /\ FlattenedPartly
    /\ r_tree = TreeNested
    /\ r_listFails = {2}
    /\ Len(df_all) = 1
    /\ df_all[1].file_id = 4
    /\ df_pc = "run"


\* job i opens its destination in this step
Opens(i) == i \in df_wrote' /\ i \notin df_wrote

\* C32: with overwrite=false no download opens for writing a destination at
\* which a file already exists, whatever the interleaving of the workers,
\* also when two remote entries have the same destination.
C32_NoWriteOntoExistingFile ==
    [][\A i \in 1..Len(df_all) :
          (Opens(i) /\ ~df_args.overwrite)
              => ~Exists(fs_files, fs_dirs, FullPath(df_all[i]))]_vars


\* the pool bound of upload_folder: max(1, cpu count - 1)
UpBound ==
    LET cpus == IF uf_args.cpu_count = 0 THEN 1 ELSE uf_args.cpu_count
    IN  IF cpus - 1 >= 1 THEN cpus - 1 ELSE 1

\* the pool bound of download_folder: the caller's max_workers, or
\* max(1, cpu count) when it is None or less than 1
DlBound ==
    LET cpus == IF df_args.cpu_count = 0 THEN 1 ELSE df_args.cpu_count
    IN  IF df_args.max_workers = NoWorkers \/ df_args.max_workers < 1
        THEN (IF cpus >= 1 THEN cpus ELSE 1)
        ELSE df_args.max_workers

\* the files a concurrent download_folder is transferring
DlRunning == { j \in 1..Len(df_job) : Running(j) }

\* C33: at every moment of a batch transfer the number of files in transfer
\* is at most the pool bound, and the bound is at least 1: max(1, cpu count
\* - 1) for upload_folder; for download_folder the caller's max_workers,
\* replaced by max(1, cpu count) when it is None or less than 1.
C33_PoolBound ==
    /\ UpBound >= 1
    /\ UfRunning <= UpBound
    /\ df_args.mode = "concurrent" =>
         /\ DlBound >= 1
         /\ Cardinality(DlRunning) <= DlBound

\* both pools are full: one file in transfer and one waiting
C33_Witness ==
    /\ uf_pc = "done"
    /\ UpBound = 1
    /\ df_args.mode = "concurrent"
    /\ df_args.max_workers = 1
    /\ Cardinality(DlRunning) = 1
    /\ \E j \in 1..Len(df_job) : df_job[j].pc = "queued"


(***************************************************************************)
(* Claims about Uploader.init.                                             *)
(***************************************************************************)

\* exactly one of sign_key and sign_val is supplied
OneOfSignPair == (i_args.sign_key = Absent) /= (i_args.sign_val = Absent)

\* the file size init works with: the argument, or the size of the local
\* file when the argument is left out
SizeUsed ==
    IF i_args.file_size = Absent /\ i_found # "nofile"
    THEN (IF i_found = "empty" THEN <<0>> ELSE <<7>>)
    ELSE i_args.file_size

\* the whole-file digest init works with is None or ""
DigestEmpty ==
    \/ i_args.fileid = <<"">>
    \/ i_args.fileid = Absent /\ i_found = "nofile"

\* a call the validation of init has to refuse
InvalidInit ==
    \/ OneOfSignPair
    \/ SizeUsed = Absent
    \/ SizeUsed # Absent /\ SizeUsed[1] <= 0
    \/ DigestEmpty

\* C34: init raises a validation error without issuing any request when
\* exactly one of sign_key and sign_val is supplied, when the file size is
\* missing or not positive (a zero-byte local file included) or when the
\* whole-file digest is empty; the instant-upload counter is unchanged.
C34_InitValidation ==
    /\ [](InvalidInit /\ i_pc # "call" =>
            i_pc \in {"sign", "file_size", "fileid"} /\ i_requests = 0)
    /\ [][InvalidInit => i_counter' = i_counter]_vars

\* init was called for a zero-byte local file with no size given
C34_Witness ==
    /\ i_pc = "file_size"
    /\ i_found = "empty"
    /\ i_args.file_size = Absent
    /\ i_args.sign_key = Absent
    /\ i_args.sign_val = Absent
    /\ i_requests = 0
    /\ i_counter = 1


\* the number of records of a result list that report success
Successes(results) == Cardinality({ j \in 1..Len(results) : results[j].success })

\* C35: a summary of a folder download has total_files = downloaded + failed
\* = the number of per-file results, and success exactly when failed = 0,
\* where a skipped file counts as failed; a summary of a folder upload has
\* total = success + failed = the number of per-file results.
C35_SummaryArithmetic ==
    /\ df_summary.kind = "batch" =>
         /\ df_summary.total_files = df_summary.downloaded + df_summary.failed
         /\ df_summary.total_files = Len(df_summary.results)
         /\ df_summary.downloaded = Successes(df_summary.results)
         /\ df_summary.success <=> df_summary.failed = 0
    /\ uf_summary.state =>
         /\ uf_summary.total = uf_summary.success + uf_summary.failed
         /\ uf_summary.total = Len(uf_summary.data)
         /\ uf_summary.success = Successes(uf_summary.data)

\* both batches returned a summary with one transfer done and one not; the
\* download skipped a file
C35_Witness ==
    /\ uf_summary.state
    /\ uf_summary.success = 1
    /\ uf_summary.failed = 1
    /\ df_summary.kind = "batch"
    /\ df_summary.downloaded = 1
    /\ df_summary.failed = 1
    /\ \E j \in 1..Len(df_summary.results) : df_summary.results[j].message = "exists"


\* C36: when a concurrent folder download has finished, every per-file
\* result with success=true names a save_path at which a file exists, for
\* every interleaving of the workers, also when two entries have the same
\* destination and one of the two transfers fails and cleans up.
C36_SuccessMeansFileOnDisk ==
    (df_pc = "done" /\ df_args.mode = "concurrent" /\ df_summary.kind = "batch") =>
        \A j \in 1..Len(df_summary.results) :
            df_summary.results[j].success =>
                Exists(fs_files, fs_dirs, df_summary.results[j].save_path)


\* download has returned for job i
Returned(i) == df_job[i].pc = "ret"

\* the job failed before its destination was opened: downurl gave no URL,
\* or the GET answered with an error status
FailedBeforeOpen(i) ==
    /\ Returned(i)
    /\ r_beh[df_all[i].pick_code] \in {"deadurl", "httperr"}

\* C37: with overwrite=true, a download whose stream fails after the
\* destination was opened leaves no file there, also when a file existed
\* there before the call; when the failure comes before the destination is
\* opened (URL resolution, HTTP status), the file that existed is untouched.
C37_OverwriteFailure ==
    \A i \in 1..Len(df_job) :
        df_args.overwrite =>
            /\ StreamInterrupted(i) /\ Returned(i) =>
                 /\ ~df_job[i].res.success
                 /\ Resolved(FullPath(df_all[i])) \notin fs_files
            /\ FailedBeforeOpen(i) =>
                 /\ ~df_job[i].res.success
                 /\ i \notin df_wrote
                 /\ fs_files = fs_init

\* overwrite=true and the stream broke after the first chunk was written
\* over the file that was there
C37_Witness ==
    \E i \in 1..Len(df_job) :
        /\ df_args.overwrite
        /\ Returned(i)
        /\ StreamInterrupted(i)
        /\ df_job[i].k = 1
        /\ Resolved(FullPath(df_all[i])) \in fs_init
        /\ fs_files = {}


(***************************************************************************)
(* Claims about upload_loop (SpecUpLoop).                                  *)
(***************************************************************************)

\* the ancestors of a relative path below the folder itself, the parent included
AncestorsOf(rel) == { SubSeq(rel, 1, n) : n \in 1..(Len(rel) - 1) }

\* the entries of results that report a failure for a directory of the tree
FailedDirEntries ==
    { j \in 1..Len(uf_results) :
        ~uf_results[j].success /\ uf_results[j].relative_path \in LocalDirs }

\* upload_loop called upload_file for f
LoopUploaded(f) == uf_fres[f].kind = "result"

\* the loop goes on after a failure: upload_loop raises at its entry only
LoopGoesOn ==
    /\ uf_pc = "raised" => uf_i = 1 /\ uf_results = << >>
    /\ uf_pc = "done" =>
         /\ \A f \in FileSet(uf_tree) : Cardinality(RecordsOf(f)) = 1
         /\ uf_summary.total = Cardinality(FileSet(uf_tree)) + Cardinality(FailedDirEntries)

\* every ancestor of an uploaded file was resolved before the upload
AncestorsResolved ==
    \A f \in FileSet(uf_tree) :
        LoopUploaded(f) =>
            /\ \A dir \in AncestorsOf(f) : dir \in DOMAIN uf_cache
            /\ uf_ftarget[f] = uf_cache[RelParent(f)]

\* C39: in upload_loop a failure to resolve or create a directory does not
\* abort the run but is recorded as a failed entry of the results (total may
\* exceed the number of files); for each later file under that directory the
\* missing ancestors are resolved again, from the nearest cached ancestor,
\* before the file is uploaded; when that fails again the file is recorded
\* as failed and the loop goes on.
C39_LoopRecoversFromFolderFailure == LoopGoesOn /\ AncestorsResolved

====
